---- MODULE Spec2Model ----
(***************************************************************************)
(* Block (src/src/components/block/index.ts) of the block editor: the      *)
(* mutation-to-change-event machine (observer, input listeners, debounced  *)
(* didMutated), the inputs cache with the current-input index, save() with *)
(* the tunes bag, call(), compose(), getActiveToolboxEntry(), destroy(),   *)
(* and willSelect()/willUnselect() over several Blocks.                    *)
(***************************************************************************)
EXTENDS Integers, Sequences, FiniteSets, TLC

(* ------------------------------------------------------------------ *)
(* Bounds of the model                                                 *)
(* ------------------------------------------------------------------ *)

\* number of distinct editable elements the holder can hold
MaxInputs == 2

\* longest list of MutationRecords handed to one observer callback
MaxBatch == 2

\* number of events (DOM mutations, native input events, dispatchChange
\* calls) the environment produces in one behaviour
MaxOps == 2

\* granularity of the clock, in ms
TickMs == 150

\* stretches of text of the document the link tool works on
MaxRanges == 2

\* tooltip hide timers pending at once
MaxTimers == 2

\* ms that pass in one step of the tooltip's clock
HideTickMs == 500

(* ------------------------------------------------------------------ *)
(* Program constants                                                   *)
(* ------------------------------------------------------------------ *)

\* setTimeout(() => this.tooltip.hide(), 1000) of the link tool
HideDelay == 1000

\* variant: a delay one clock step shorter than the 450 ms
modificationDebounceTimerShort == 450 - TickMs

\* private readonly modificationDebounceTimer = 450
modificationDebounceTimer == 450

(* ------------------------------------------------------------------ *)
(* The DOM the Block lives in                                          *)
(* ------------------------------------------------------------------ *)

\* editable elements: odd ones are native <input>/<textarea>, even ones
\* are contentEditable elements
InputIds == 1..MaxInputs

IsNativeInput(el) == el \in InputIds /\ el % 2 = 1

\* a node of the document: 0 is a node outside every input of the holder,
\* i > 0 is input i or a node inside it
Nodes == 0..MaxInputs

\* no node at all (SelectionUtils.anchorNode of an empty selection)
NullNode == MaxInputs + 1

\* nodes of a MutationRecord's addedNodes/removedNodes, each reduced to
\* $.isElement(node) && node.dataset.mutationFree === 'true'
MutationRecords ==
  { [addedNodes |-> <<FALSE>>, removedNodes |-> <<>>],    \* a plain node added
    [addedNodes |-> <<TRUE>>,  removedNodes |-> <<>>] }   \* a mutation-free node added

Batches == UNION { [1..n -> MutationRecords] : n \in 1..MaxBatch }

\* the argument of didMutated: MutationRecord[] | InputEvent
MutationsArg(batch) == [kind |-> "MutationRecords", records |-> batch]

InputEventArg == [kind |-> "InputEvent", records |-> <<>>]

Range(s) == { s[i] : i \in 1..Len(s) }

VARIABLES
  holderInputs,   \* $.findAllInputs(this.holder): the editable elements, in document order
  cachedInputs,   \* this.cachedInputs
  inputIndex,     \* this.inputIndex
  observing,      \* this.mutationObserver is connected
  listeners,      \* inputs carrying handleFocus (and didMutated, if native) listeners
  timerArmed,     \* the debounce timer is pending
  timerArgs,      \* arguments of the last call of the debounced didMutated
  elapsed,        \* ms since the last call of the debounced didMutated
  opsLeft,        \* events the environment may still produce
  lastStep,       \* what the last step did: none, selected, ignored, armed, discarded, notified, threw
  burstEmits,     \* didMutated emissions since the last call of the debounced didMutated
  burstCalls,     \* calls of the debounced didMutated the pending (or last fired) timer collapsed
  cycled,         \* willUnselect ran right after willSelect, and no willSelect since
  audit,          \* what the last step's currentInput setter / didMutated callback did
  destroyed,      \* destroy() has been called, and how often it invoked the tool's destroy
  toolbox,        \* this.tool.toolbox: the tool's toolbox entries
  blockData,      \* what `await this.data` resolves with
  activeEntry,    \* how the last getActiveToolboxEntry() settled
  toolMembers,    \* this.toolInstance[methodName], for each hook name
  called,         \* the last call(methodName): its name, invocations, normal return
  tuneOrder,      \* this.tunes.values(): the registered tunes in registration order
  wrapKinds,      \* each tune's wrap member
  composed,       \* what compose() appended to the wrapper
  observers,      \* several Blocks: those whose mutation observer is connected
  pendingBlocks,  \* several Blocks: those whose debounce timer is pending
  callerSelected, \* several Blocks: those the caller selected and did not unselect
  disciplined,    \* several Blocks: every willSelect so far came after the handoff
  notifiedBlock,  \* several Blocks: the Block that emitted didMutated last
  linkTool,       \* the link inline tool, its SelectionUtils and the document it edits
  settings,       \* the block settings panel: the editor's Blocks and their delete tunes
  tunes,               \* this.tunes: for each tune name, how the tool registers it
  unavailableTunesData,\* this.unavailableTunesData
  loadedTunesData,     \* the tunesData the constructor was given
  originalTunesData,   \* the tunesData the first Block of the document entry was given
  saved,               \* how the last save() settled, and the record it resolved with
  lastThrew,           \* the tunes whose save() threw in the last save()
  lastReturned,        \* what the tunes' save() returned in the last save()
  reloaded             \* the Block was constructed from a record save() resolved with

blockVars == <<holderInputs, cachedInputs, inputIndex, observing, listeners,
               timerArmed, timerArgs, elapsed, opsLeft, lastStep, burstEmits, burstCalls,
               cycled, audit>>

saveVars == <<tunes, unavailableTunesData, loadedTunesData, originalTunesData,
              saved, lastThrew, lastReturned, reloaded>>

lifeVars == <<destroyed>>

toolboxVars == <<toolbox, blockData, activeEntry>>

callVars == <<toolMembers, called>>

composeVars == <<tuneOrder, wrapKinds, composed>>

handoffVars == <<observers, pendingBlocks, callerSelected, disciplined, notifiedBlock>>

linkVars == <<linkTool>>

tuneVars == <<settings>>

\* the inline tools of the editor's toolbars and its block tunes
uiVars == <<linkVars, tuneVars>>

\* the state no method of one constructed Block's selection, inputs or save touches
extVars == <<toolboxVars, callVars, composeVars, handoffVars, uiVars>>

vars == <<blockVars, saveVars, lifeVars, extVars>>

(* ------------------------------------------------------------------ *)
(* inputs / currentInput                                               *)
(* ------------------------------------------------------------------ *)

\* get inputs(): the value returned, for a given cache
InputsOf(cache) == IF Len(cache) # 0 THEN cache ELSE holderInputs

\* get inputs(): this.inputIndex after the call
IndexAfterGet(cache, idx) ==
  IF Len(cache) # 0 THEN idx
  ELSE IF idx > Len(holderInputs) - 1 THEN Len(holderInputs) - 1 ELSE idx

\* Array.prototype.findIndex(input => input === element || input.contains(element))
FindIndex(inputs, element) ==
  IF \E p \in 1..Len(inputs) : inputs[p] = element /\ element # 0
  THEN (CHOOSE p \in 1..Len(inputs) :
          /\ inputs[p] = element
          /\ \A q \in 1..(p - 1) : inputs[q] # element) - 1
  ELSE 0 - 1

\* variant: the setter searches the inputs without the getter's side effect
IndexAfterSetNoClamp(cache, idx, element) ==
  LET index == FindIndex(InputsOf(cache), element)
  IN  IF index # 0 - 1 THEN index ELSE idx

\* set currentInput(element): this.inputIndex after the call
IndexAfterSet(cache, idx, element) ==
  LET index == FindIndex(InputsOf(cache), element)
  IN  IF index # 0 - 1 THEN index ELSE IndexAfterGet(cache, idx)

\* updateCurrentInput(): the element handed to the currentInput setter
CurrentInputTarget(activeElement, anchorNode) ==
  IF IsNativeInput(activeElement) \/ anchorNode = NullNode
  THEN activeElement
  ELSE anchorNode

\* the steps of this Block are not recorded
AuditOff ==
  [on |-> FALSE, trace |-> <<>>, setter |-> FALSE, dropped |-> FALSE, element |-> NullNode,
   activeElement |-> NullNode, anchorNode |-> NullNode]

\* no currentInput setter and no didMutated callback ran in the step
NoAudit ==
  [on |-> TRUE, trace |-> <<>>, setter |-> FALSE, dropped |-> FALSE, element |-> NullNode,
   activeElement |-> NullNode, anchorNode |-> NullNode]

\* the currentInput setter ran in the step: the element it was given, and
\* whether this.cachedInputs = [] came right before it
SetterAudit(element, dropped) ==
  [on |-> TRUE, trace |-> <<>>, setter |-> TRUE, dropped |-> dropped, element |-> element,
   activeElement |-> NullNode, anchorNode |-> NullNode]

\* the didMutated callback ran in the step and was not discarded: its effects
\* in order, document.activeElement and SelectionUtils.anchorNode at the time,
\* and the element updateCurrentInput() gave the setter
CallbackAudit(trace, activeElement, anchorNode) ==
  [on |-> TRUE, trace |-> trace, setter |-> TRUE, dropped |-> TRUE,
   element |-> CurrentInputTarget(activeElement, anchorNode),
   activeElement |-> activeElement, anchorNode |-> anchorNode]

\* the record of a step, when steps are recorded
Audited(a) == IF audit.on THEN a ELSE audit

(* ------------------------------------------------------------------ *)
(* call(methodName, params)                                            *)
(* ------------------------------------------------------------------ *)

\* this.toolInstance[methodName]: missing, a value that is no function, a
\* function that returns, a function that throws a value with properties (an
\* Error), a function that throws null or undefined
MemberKinds == {"absent", "notFunction", "returns", "throws", "throwsNullish"}

\* _.isFunction(this.toolInstance[methodName])
IsFunction(member) == member \in {"returns", "throws", "throwsNullish"}

\* call(methodName, params): how often the member is invoked, whether the
\* catch block logged the exception, and whether call() returns normally; the
\* catch block evaluates e.message before it logs, which throws a TypeError
\* when e is null or undefined
Call(member) ==
  [invoked |-> IF IsFunction(member) THEN 1 ELSE 0,
   logged |-> member = "throws",
   returned |-> member # "throwsNullish"]

\* the tool's updated member in a run of the didMutated callback
UpdatedHooks == {"absent", "returns", "throws", "throwsNullish"}

(* ------------------------------------------------------------------ *)
(* didMutated                                                          *)
(* ------------------------------------------------------------------ *)

\* variant: the batch is discarded only when every node of it carries the marker
ShouldFireUpdateEvery(arg) ==
  \/ arg.kind = "InputEvent"
  \/ ~ \A r \in 1..Len(arg.records) :
         LET nodes == arg.records[r].addedNodes \o arg.records[r].removedNodes
         IN  \A n \in 1..Len(nodes) : nodes[n]

\* const shouldFireUpdate = ...
ShouldFireUpdate(arg) ==
  \/ arg.kind = "InputEvent"
  \/ ~ \E r \in 1..Len(arg.records) :
         LET nodes == arg.records[r].addedNodes \o arg.records[r].removedNodes
         IN  \E n \in 1..Len(nodes) : nodes[n]

\* the effects of one run of the callback that is not discarded, in the order
\* of its statements; updated is what call(BlockToolAPI.UPDATED) did
CallbackTrace(updated) ==
  <<"cachedInputs", "updateCurrentInput">>
    \o (IF updated.invoked = 1 THEN <<"updated">> ELSE <<>>)
    \o (IF updated.logged THEN <<"log">> ELSE <<>>)
    \o (IF updated.returned THEN <<"didMutated">> ELSE <<>>)

\* variant: the callback returns early once the observer is disconnected
DidMutatedCallbackWhileObserving(arg, activeElement, anchorNode, hook) ==
  IF ~ observing \/ ~ ShouldFireUpdate(arg)
  THEN /\ lastStep' = "discarded"
       /\ audit' = Audited(NoAudit)
       /\ UNCHANGED <<cachedInputs, inputIndex, burstEmits>>
  ELSE /\ cachedInputs' = InputsOf(<<>>)
       /\ inputIndex' = IndexAfterSet(<<>>, inputIndex,
                                      CurrentInputTarget(activeElement, anchorNode))
       /\ lastStep' = IF Call(hook).returned THEN "notified" ELSE "threw"
       /\ burstEmits' = IF Call(hook).returned THEN burstEmits + 1 ELSE burstEmits
       /\ audit' = Audited(CallbackAudit(CallbackTrace(Call(hook)),
                                         activeElement, anchorNode))

\* the function wrapped by _.debounce
DidMutatedCallback(arg, activeElement, anchorNode, hook) ==
  IF ~ ShouldFireUpdate(arg)
  THEN /\ lastStep' = "discarded"
       /\ audit' = Audited(NoAudit)
       /\ UNCHANGED <<cachedInputs, inputIndex, burstEmits, burstCalls>>
  ELSE LET updated == Call(hook)
       IN  \* this.cachedInputs = []; this.updateCurrentInput()
           /\ cachedInputs' = InputsOf(<<>>)
           /\ inputIndex' = IndexAfterSet(<<>>, inputIndex,
                                          CurrentInputTarget(activeElement, anchorNode))
           \* this.call(BlockToolAPI.UPDATED); this.emit('didMutated', this)
           /\ lastStep' = IF updated.returned THEN "notified" ELSE "threw"
           /\ burstEmits' = IF updated.returned THEN burstEmits + 1 ELSE burstEmits
           /\ audit' = Audited(CallbackAudit(CallbackTrace(updated),
                                             activeElement, anchorNode))

\* _.debounce(func, wait): a call (re)starts the timer and keeps the arguments
Debounced(arg) ==
  /\ timerArmed' = TRUE
  /\ timerArgs' = arg
  /\ elapsed' = 0
  /\ burstEmits' = 0
  /\ burstCalls' = IF timerArmed THEN burstCalls + 1 ELSE 1
  /\ lastStep' = "armed"

\* the timer of _.debounce fires
TimerFire(activeElement, anchorNode, hook) ==
  /\ timerArmed
  /\ elapsed >= modificationDebounceTimer
  /\ timerArmed' = FALSE
  /\ DidMutatedCallback(timerArgs, activeElement, anchorNode, hook)
  /\ UNCHANGED <<holderInputs, observing, listeners, timerArgs, elapsed, opsLeft,
                 burstCalls, cycled>>
  /\ UNCHANGED <<saveVars, lifeVars, extVars>>

\* time passes while the timer is pending
Tick ==
  /\ timerArmed
  /\ elapsed < modificationDebounceTimer
  /\ elapsed' = elapsed + TickMs
  /\ lastStep' = "none"
  /\ audit' = Audited(NoAudit)
  /\ UNCHANGED <<holderInputs, cachedInputs, inputIndex, observing, listeners,
                 timerArmed, timerArgs, opsLeft, burstEmits, burstCalls, cycled>>
  /\ UNCHANGED <<saveVars, lifeVars, extVars>>

(* ------------------------------------------------------------------ *)
(* Selection of the Block                                              *)
(* ------------------------------------------------------------------ *)

\* addInputEvents()
AddInputEvents ==
  /\ listeners' = listeners \cup Range(InputsOf(cachedInputs))
  /\ cachedInputs' = InputsOf(cachedInputs)
  /\ inputIndex' = IndexAfterGet(cachedInputs, inputIndex)

\* removeInputEvents()
RemoveInputEvents ==
  /\ listeners' = listeners \ Range(InputsOf(cachedInputs))
  /\ cachedInputs' = InputsOf(cachedInputs)
  /\ inputIndex' = IndexAfterGet(cachedInputs, inputIndex)

willSelect ==
  /\ observing' = TRUE
  /\ AddInputEvents
  /\ lastStep' = "selected"
  /\ audit' = Audited(NoAudit)
  /\ cycled' = FALSE
  /\ UNCHANGED <<holderInputs, timerArmed, timerArgs, elapsed, opsLeft, burstEmits, burstCalls>>
  /\ UNCHANGED <<saveVars, lifeVars, extVars>>

\* variant: willUnselect forgets removeInputEvents()
willUnselectKeepsListeners ==
  /\ observing' = FALSE
  /\ lastStep' = "none"
  /\ audit' = Audited(NoAudit)
  /\ cycled' = (lastStep = "selected")
  /\ UNCHANGED <<holderInputs, cachedInputs, inputIndex, listeners, timerArmed, timerArgs,
                 elapsed, opsLeft, burstEmits, burstCalls>>
  /\ UNCHANGED <<saveVars, lifeVars, extVars>>

willUnselect ==
  /\ observing' = FALSE
  /\ RemoveInputEvents
  /\ lastStep' = "none"
  /\ audit' = Audited(NoAudit)
  /\ cycled' = (lastStep = "selected")
  /\ UNCHANGED <<holderInputs, timerArmed, timerArgs, elapsed, opsLeft, burstEmits, burstCalls>>
  /\ UNCHANGED <<saveVars, lifeVars, extVars>>

\* variant: dispatchChange runs the callback itself instead of the debounced function
dispatchChangeSync ==
  /\ opsLeft > 0
  /\ opsLeft' = opsLeft - 1
  /\ timerArgs' = MutationsArg(<<>>)
  /\ \E activeElement \in Nodes, hook \in UpdatedHooks :
       DidMutatedCallback(MutationsArg(<<>>), activeElement, NullNode, hook)
  /\ UNCHANGED <<holderInputs, observing, listeners, timerArmed, elapsed, burstCalls, cycled>>
  /\ UNCHANGED <<saveVars, lifeVars, extVars>>

dispatchChange ==
  /\ opsLeft > 0
  /\ opsLeft' = opsLeft - 1
  /\ audit' = Audited(NoAudit)
  /\ Debounced(MutationsArg(<<>>))
  /\ UNCHANGED <<holderInputs, cachedInputs, inputIndex, observing, listeners, cycled>>
  /\ UNCHANGED <<saveVars, lifeVars, extVars>>

\* destroy(): super.destroy(), then the tool's destroy if it is a function;
\* hook is this.toolInstance.destroy
destroy(hook) ==
  /\ ~ destroyed.done
  /\ destroyed' = [done |-> TRUE, toolDestroy |-> IF IsFunction(hook) THEN 1 ELSE 0]
  /\ lastStep' = "none"
  /\ audit' = Audited(NoAudit)
  /\ UNCHANGED <<holderInputs, cachedInputs, inputIndex, observing, listeners, timerArmed,
                 timerArgs, elapsed, opsLeft, burstEmits, burstCalls, cycled>>
  /\ UNCHANGED <<saveVars, extVars>>

(* ------------------------------------------------------------------ *)
(* Events of the environment                                           *)
(* ------------------------------------------------------------------ *)

\* the MutationObserver's callback, or nothing when it is disconnected
ObserverDelivers(batch) ==
  IF observing
  THEN Debounced(MutationsArg(batch))
  ELSE /\ lastStep' = "ignored"
       /\ UNCHANGED <<timerArmed, timerArgs, elapsed, burstEmits, burstCalls>>

\* a task changes the DOM under holder.firstElementChild without touching the inputs
MutateContent(batch) ==
  /\ opsLeft > 0
  /\ opsLeft' = opsLeft - 1
  /\ audit' = Audited(NoAudit)
  /\ ObserverDelivers(batch)
  /\ UNCHANGED <<holderInputs, cachedInputs, inputIndex, observing, listeners, cycled>>
  /\ UNCHANGED <<saveVars, lifeVars, extVars>>

\* the MutationRecord of one element added to / removed from the holder
AddedRecord(mutationFree) == <<[addedNodes |-> <<mutationFree>>, removedNodes |-> <<>>]>>

RemovedRecord(mutationFree) == <<[addedNodes |-> <<>>, removedNodes |-> <<mutationFree>>]>>

\* a task appends a new editable element
AddInput(el, mutationFree) ==
  /\ opsLeft > 0
  /\ el \notin Range(holderInputs) \cup Range(cachedInputs)
  /\ opsLeft' = opsLeft - 1
  /\ audit' = Audited(NoAudit)
  /\ holderInputs' = Append(holderInputs, el)
  /\ listeners' = listeners \ {el}
  /\ ObserverDelivers(AddedRecord(mutationFree))
  /\ UNCHANGED <<cachedInputs, inputIndex, observing, cycled>>
  /\ UNCHANGED <<saveVars, lifeVars, extVars>>

\* a task removes the editable element at position p
RemoveInput(p, mutationFree) ==
  /\ opsLeft > 0
  /\ p \in 1..Len(holderInputs)
  /\ opsLeft' = opsLeft - 1
  /\ audit' = Audited(NoAudit)
  /\ holderInputs' = [q \in 1..(Len(holderInputs) - 1) |->
                        IF q < p THEN holderInputs[q] ELSE holderInputs[q + 1]]
  /\ listeners' = listeners \ {holderInputs[p]}
  /\ ObserverDelivers(RemovedRecord(mutationFree))
  /\ UNCHANGED <<cachedInputs, inputIndex, observing, cycled>>
  /\ UNCHANGED <<saveVars, lifeVars, extVars>>

\* the user types into a native input of the holder
NativeInputEvent(el) ==
  /\ opsLeft > 0
  /\ el \in Range(holderInputs)
  /\ IsNativeInput(el)
  /\ opsLeft' = opsLeft - 1
  /\ audit' = Audited(NoAudit)
  /\ IF el \in listeners
     THEN Debounced(InputEventArg)
     ELSE /\ lastStep' = "ignored"
          /\ UNCHANGED <<timerArmed, timerArgs, elapsed, burstEmits, burstCalls>>
  /\ UNCHANGED <<holderInputs, cachedInputs, inputIndex, observing, listeners, cycled>>
  /\ UNCHANGED <<saveVars, lifeVars, extVars>>

\* handleFocus: an input carrying the listener gets the focus
handleFocus(el, anchorNode) ==
  /\ el \in Range(holderInputs)
  /\ el \in listeners
  /\ cachedInputs' = InputsOf(<<>>)
  /\ inputIndex' = IndexAfterSet(<<>>, inputIndex, CurrentInputTarget(el, anchorNode))
  /\ lastStep' = "none"
  /\ audit' = Audited(SetterAudit(CurrentInputTarget(el, anchorNode), TRUE))
  /\ UNCHANGED <<holderInputs, observing, listeners, timerArmed, timerArgs, elapsed,
                 opsLeft, burstEmits, burstCalls, cycled>>
  /\ UNCHANGED <<saveVars, lifeVars, extVars>>

\* a caller reads block.inputs (firstInput, lastInput, currentInput, ...)
ReadInputs ==
  /\ cachedInputs' = InputsOf(cachedInputs)
  /\ inputIndex' = IndexAfterGet(cachedInputs, inputIndex)
  /\ lastStep' = "none"
  /\ audit' = Audited(NoAudit)
  /\ UNCHANGED <<holderInputs, observing, listeners, timerArmed, timerArgs, elapsed,
                 opsLeft, burstEmits, burstCalls, cycled>>
  /\ UNCHANGED <<saveVars, lifeVars, extVars>>

\* a caller assigns block.currentInput = element
SetCurrentInput(element) ==
  /\ cachedInputs' = InputsOf(cachedInputs)
  /\ inputIndex' = IndexAfterSet(cachedInputs, inputIndex, element)
  /\ lastStep' = "none"
  /\ audit' = Audited(SetterAudit(element, FALSE))
  /\ UNCHANGED <<holderInputs, observing, listeners, timerArmed, timerArgs, elapsed,
                 opsLeft, burstEmits, burstCalls, cycled>>
  /\ UNCHANGED <<saveVars, lifeVars, extVars>>

(* ------------------------------------------------------------------ *)
(* The Block after its constructor                                     *)
(* ------------------------------------------------------------------ *)

\* the tool's render() put n editable elements into the holder
RenderedInputs(n) == [p \in 1..n |-> p]

BlockStart ==
  /\ \E n \in 0..MaxInputs : holderInputs = RenderedInputs(n)
  /\ cachedInputs = <<>>
  /\ inputIndex = 0
  /\ observing = FALSE
  /\ listeners = {}
  /\ timerArmed = FALSE
  /\ timerArgs = MutationsArg(<<>>)
  /\ elapsed = 0
  /\ opsLeft = MaxOps
  /\ lastStep = "none"
  /\ burstEmits = 0
  /\ burstCalls = 0
  /\ cycled = FALSE

BlockInit == BlockStart /\ audit = AuditOff

(* ------------------------------------------------------------------ *)
(* Tunes and save()                                                    *)
(* ------------------------------------------------------------------ *)

TuneNames == {"a", "b", "c"}

\* a name is registered as a user tune or as an internal (default) tune, with
\* or without a save function, or it is not registered for the tool
TuneKinds == {"user", "userNoSave", "internal", "internalNoSave", "absent"}

\* BlockTuneData as loaded from a document, and as returned by a tune's save()
LoadedValues == {"stored"}

SavedValues == {"fresh"}

\* objects with string keys: functions on a subset of TuneNames
Bags(values) == UNION { [names -> values] : names \in SUBSET TuneNames }

EmptyBag == [n \in {} |-> "stored"]

\* keys of this.tunesInstances
tunesInstances == { n \in TuneNames : tunes[n] \in {"user", "userNoSave"} }

\* keys of this.defaultTunesInstances
defaultTunesInstances == { n \in TuneNames : tunes[n] \in {"internal", "internalNoSave"} }

\* _.isFunction(tune.save)
HasSave(n) == tunes[n] \in {"user", "internal"}

\* variant: the data of the registered tunes is kept instead of the unavailable ones
composeTunesInverted(tunesData) ==
  [n \in { m \in DOMAIN tunesData : m \in tunesInstances } |-> tunesData[n]]

\* composeTunes(tunesData): this.unavailableTunesData after the call
composeTunes(tunesData) ==
  [n \in { m \in DOMAIN tunesData : m \notin tunesInstances } |-> tunesData[n]]

\* the forEach of save(): tunesData after it, for the outcomes of the tunes' save()
\* (outcome[n] is "throws" or the value returned)
TunesBag(tunesData, outcome) ==
  LET written == { n \in tunesInstances \cup defaultTunesInstances :
                     HasSave(n) /\ outcome[n] # "throws" }
  IN  [n \in DOMAIN tunesData \cup written |->
         IF n \in written THEN outcome[n] ELSE tunesData[n]]

\* save(): toolSave is how this.toolInstance.save() ends
save(toolSave, outcome) ==
  /\ UNCHANGED <<blockVars, lifeVars, extVars>>
  /\ IF toolSave # "returns"
     THEN \* the await throws: the async function rejects before the tunes are asked
          /\ saved' = [status |-> "rejected", tunes |-> EmptyBag]
          /\ lastThrew' = {}
          /\ lastReturned' = EmptyBag
          /\ UNCHANGED <<tunes, unavailableTunesData, loadedTunesData, originalTunesData, reloaded>>
     ELSE LET bag == TunesBag(unavailableTunesData, outcome)
          IN  \* tunesData is this.unavailableTunesData itself, not a copy
              /\ unavailableTunesData' = bag
              /\ saved' = [status |-> "resolved", tunes |-> bag]
              /\ lastThrew' = { n \in tunesInstances \cup defaultTunesInstances :
                                  HasSave(n) /\ outcome[n] = "throws" }
              /\ lastReturned' = [n \in { m \in tunesInstances \cup defaultTunesInstances :
                                             HasSave(m) /\ outcome[m] # "throws" } |-> outcome[n]]
              /\ UNCHANGED <<tunes, loadedTunesData, originalTunesData, reloaded>>

ToolSaveOutcomes == {"returns", "throws", "rejects"}

TuneSaveOutcomes == [TuneNames -> SavedValues \cup {"throws"}]

\* the constructor, called with the tunes of the record the last save() resolved with
Reload ==
  /\ saved.status = "resolved"
  /\ ~ reloaded
  /\ reloaded' = TRUE
  /\ loadedTunesData' = saved.tunes
  /\ unavailableTunesData' = composeTunes(saved.tunes)
  /\ saved' = [status |-> "none", tunes |-> EmptyBag]
  /\ lastThrew' = {}
  /\ lastReturned' = EmptyBag
  /\ UNCHANGED <<tunes, originalTunesData>>
  /\ UNCHANGED <<blockVars, lifeVars, extVars>>

SaveIdle ==
  /\ tunes = [n \in TuneNames |-> "absent"]
  /\ unavailableTunesData = EmptyBag
  /\ loadedTunesData = EmptyBag
  /\ originalTunesData = EmptyBag
  /\ saved = [status |-> "none", tunes |-> EmptyBag]
  /\ lastThrew = {}
  /\ lastReturned = EmptyBag
  /\ reloaded = FALSE

BlockIdle ==
  /\ holderInputs = RenderedInputs(1)
  /\ cachedInputs = <<>>
  /\ inputIndex = 0
  /\ observing = FALSE
  /\ listeners = {}
  /\ timerArmed = FALSE
  /\ timerArgs = MutationsArg(<<>>)
  /\ elapsed = 0
  /\ opsLeft = 0
  /\ lastStep = "none"
  /\ burstEmits = 0
  /\ burstCalls = 0
  /\ cycled = FALSE
  /\ audit = AuditOff

\* a Block on which destroy() was not called
LifeIdle == destroyed = [done |-> FALSE, toolDestroy |-> 0]

\* getActiveToolboxEntry() was not called
ToolboxIdle ==
  /\ toolbox = <<>>
  /\ blockData = <<>>
  /\ activeEntry = [status |-> "none", index |-> 0, save |-> "notCalled"]

\* call() was not called
CallIdle ==
  /\ toolMembers = <<>>
  /\ called = [methodName |-> "none", invoked |-> 0, returned |-> TRUE]

\* no tune is registered
ComposeIdle ==
  /\ tuneOrder = <<>>
  /\ wrapKinds = <<>>
  /\ composed = [done |-> FALSE, node |-> <<>>]

\* no other Block in the editor
HandoffIdle ==
  /\ observers = {}
  /\ pendingBlocks = {}
  /\ callerSelected = {}
  /\ disciplined = TRUE
  /\ notifiedBlock = 0

\* no inline tool is rendered
UiIdle == linkTool = <<>> /\ settings = <<>>

ExtIdle == ToolboxIdle /\ CallIdle /\ ComposeIdle /\ HandoffIdle /\ UiIdle

(* ------------------------------------------------------------------ *)
(* compose()                                                           *)
(* ------------------------------------------------------------------ *)

\* tune.wrap: missing, a function that returns a node wrapped around its
\* argument, a function that throws
WrapKinds == {"none", "wraps", "throws"}

\* the orders in which a set of names can be registered
Orders(names) ==
  { order \in [1..Cardinality(names) -> names] :
      \A i, j \in 1..Cardinality(names) : i # j => order[i] # order[j] }

\* variant: the default tunes wrap before the user tunes
WrapOrderDefaultFirst ==
  SelectSeq(tuneOrder, LAMBDA n : n \in defaultTunesInstances) \o
  SelectSeq(tuneOrder, LAMBDA n : n \in tunesInstances)

\* [...this.tunesInstances.values(), ...this.defaultTunesInstances.values()]
WrapOrder ==
  SelectSeq(tuneOrder, LAMBDA n : n \in tunesInstances) \o
  SelectSeq(tuneOrder, LAMBDA n : n \in defaultTunesInstances)

\* the forEach of compose(): wrappedContentNode after it; a node is the list of
\* the tunes whose wrappers surround the content node, innermost first
RECURSIVE WrapAll(_, _)
WrapAll(node, order) ==
  IF order = <<>> THEN node
  ELSE WrapAll(IF wrapKinds[Head(order)] = "wraps" THEN Append(node, Head(order))
               ELSE node,
               Tail(order))

\* compose(): the node appended to the wrapper
compose ==
  /\ ~ composed.done
  /\ composed' = [done |-> TRUE, node |-> WrapAll(<<>>, WrapOrder)]
  /\ UNCHANGED <<tuneOrder, wrapKinds>>
  /\ UNCHANGED <<blockVars, saveVars, lifeVars, toolboxVars, callVars, handoffVars, uiVars>>

\* the constructor up to composeTunes(tunesData): the tunes are instantiated
ComposeInit ==
  /\ BlockIdle
  /\ LifeIdle
  /\ ToolboxIdle
  /\ CallIdle
  /\ HandoffIdle
  /\ UiIdle
  /\ tunes \in [TuneNames -> {"user", "internal", "absent"}]
  /\ unavailableTunesData = EmptyBag
  /\ loadedTunesData = EmptyBag
  /\ originalTunesData = EmptyBag
  /\ saved = [status |-> "none", tunes |-> EmptyBag]
  /\ lastThrew = {}
  /\ lastReturned = EmptyBag
  /\ reloaded = FALSE
  /\ tuneOrder \in Orders(tunesInstances \cup defaultTunesInstances)
  /\ wrapKinds \in [TuneNames -> WrapKinds]
  /\ composed = [done |-> FALSE, node |-> <<>>]

ComposeNext == compose

ComposeSpec == ComposeInit /\ [][ComposeNext]_vars

(* ------------------------------------------------------------------ *)
(* willSelect() / willUnselect() of several Blocks                     *)
(* ------------------------------------------------------------------ *)

\* number of Blocks in the editor
MaxBlocks == 3

Blocks == 1..MaxBlocks

\* variant: willUnselect() leaves the observer connected
willUnselectOfKeepsObserver(b) ==
  /\ callerSelected' = callerSelected \ {b}
  /\ UNCHANGED <<observers, pendingBlocks, disciplined, notifiedBlock>>
  /\ UNCHANGED <<blockVars, saveVars, lifeVars, toolboxVars, callVars, composeVars, uiVars>>

\* willUnselect() of Block b: this.mutationObserver.disconnect()
willUnselectOf(b) ==
  /\ observers' = observers \ {b}
  /\ callerSelected' = callerSelected \ {b}
  /\ UNCHANGED <<pendingBlocks, disciplined, notifiedBlock>>
  /\ UNCHANGED <<blockVars, saveVars, lifeVars, toolboxVars, callVars, composeVars, uiVars>>

\* willSelect() of Block b: this.mutationObserver.observe(...); the caller kept
\* the handoff if no other Block was selected at the time of the call
willSelectOf(b) ==
  /\ observers' = observers \cup {b}
  /\ callerSelected' = callerSelected \cup {b}
  /\ disciplined' = (disciplined /\ callerSelected \subseteq {b})
  /\ UNCHANGED <<pendingBlocks, notifiedBlock>>
  /\ UNCHANGED <<blockVars, saveVars, lifeVars, toolboxVars, callVars, composeVars, uiVars>>

\* a task changes the DOM under the holder of Block b: its observer, if
\* connected, calls the Block's debounced didMutated
MutateBlock(b) ==
  /\ pendingBlocks' = IF b \in observers THEN pendingBlocks \cup {b} ELSE pendingBlocks
  /\ notifiedBlock' = 0
  /\ UNCHANGED <<observers, callerSelected, disciplined>>
  /\ UNCHANGED <<blockVars, saveVars, lifeVars, toolboxVars, callVars, composeVars, uiVars>>

\* the debounce timer of Block b fires: the Block emits didMutated
TimerFireOf(b) ==
  /\ b \in pendingBlocks
  /\ pendingBlocks' = pendingBlocks \ {b}
  /\ notifiedBlock' = b
  /\ UNCHANGED <<observers, callerSelected, disciplined>>
  /\ UNCHANGED <<blockVars, saveVars, lifeVars, toolboxVars, callVars, composeVars, uiVars>>

\* the Blocks after their constructors: no observer is connected
HandoffInit ==
  /\ BlockIdle
  /\ SaveIdle
  /\ LifeIdle
  /\ ToolboxIdle
  /\ CallIdle
  /\ ComposeIdle
  /\ UiIdle
  /\ observers = {}
  /\ pendingBlocks = {}
  /\ callerSelected = {}
  /\ disciplined = TRUE
  /\ notifiedBlock = 0

HandoffNext ==
  \/ \E b \in Blocks : willSelectOf(b)
  \/ \E b \in Blocks : willUnselectOf(b)
  \/ \E b \in Blocks : MutateBlock(b)
  \/ \E b \in Blocks : TimerFireOf(b)

HandoffSpec == HandoffInit /\ [][HandoffNext]_vars

(* ------------------------------------------------------------------ *)
(* call(methodName, params) on a tool instance                         *)
(* ------------------------------------------------------------------ *)

\* BlockToolAPI: names of the tool's optional methods
HookNames == {"rendered", "updated", "removed"}

\* a caller calls block.call(methodName)
call(methodName) ==
  /\ called.methodName = "none"
  /\ called' = [methodName |-> methodName,
                invoked |-> Call(toolMembers[methodName]).invoked,
                returned |-> Call(toolMembers[methodName]).returned]
  /\ UNCHANGED toolMembers
  /\ UNCHANGED <<blockVars, saveVars, lifeVars, toolboxVars, composeVars, handoffVars, uiVars>>

\* a Block whose tool instance has some of the optional methods
CallInit ==
  /\ BlockIdle
  /\ SaveIdle
  /\ LifeIdle
  /\ ToolboxIdle
  /\ ComposeIdle
  /\ HandoffIdle
  /\ UiIdle
  /\ toolMembers \in [HookNames -> MemberKinds]
  /\ called = [methodName |-> "none", invoked |-> 0, returned |-> TRUE]

CallNext == \E methodName \in HookNames : call(methodName)

CallSpec == CallInit /\ [][CallNext]_vars

(* ------------------------------------------------------------------ *)
(* getActiveToolboxEntry()                                             *)
(* ------------------------------------------------------------------ *)

\* longest toolbox of a tool
MaxEntries == 2

\* property names of the tool's data
DataKeys == {"level", "style"}

\* property values: 0 is a falsy value, the others are truthy
DataValues == {0, 1, 2}

\* objects over DataKeys: BlockToolData, and the data of a toolbox entry
DataObjects == UNION { [keys -> DataValues] : keys \in SUBSET DataKeys }

\* a ToolboxConfigEntry: its data member is optional
ToolboxEntries ==
  { [declared |-> TRUE, data |-> d] : d \in DataObjects } \cup
  { [declared |-> FALSE, data |-> <<>>] }

Toolboxes == UNION { [1..n -> ToolboxEntries] : n \in 1..MaxEntries }

\* blockData[propName], as a condition
Truthy(data, propName) == propName \in DOMAIN data /\ data[propName] # 0

\* _.equals(var1, var2)
Equals(var1, var2) == var1 = var2

\* variant: an entry matches when every declared property matches
ItemMatchesEvery(item, data) ==
  \A propName \in DOMAIN item.data :
    Truthy(data, propName) /\ Equals(data[propName], item.data[propName])

\* the predicate given to toolboxItems.find
ItemMatches(item, data) ==
  \E propName \in DOMAIN item.data :
    Truthy(data, propName) /\ Equals(data[propName], item.data[propName])

\* toolboxItems.find(...): positions at which find stops, because the entry
\* matches or because Object.entries(undefined) throws
FindStops(items, data) ==
  { i \in 1..Len(items) : ~ items[i].declared \/ ItemMatches(items[i], data) }

\* the Promise of the part of getActiveToolboxEntry() after the single-entry test
FindActiveEntry(toolSave) ==
  IF toolSave # "returns"
  THEN \* await this.data: save() rejects
       [status |-> "rejected", index |-> 0, save |-> toolSave]
  ELSE LET stops == FindStops(toolbox, blockData)
       IN  IF stops = {}
           THEN [status |-> "resolved", index |-> 0, save |-> toolSave]
           ELSE LET first == CHOOSE i \in stops : \A j \in stops : i <= j
                IN  IF toolbox[first].declared
                    THEN [status |-> "resolved", index |-> first, save |-> toolSave]
                    ELSE [status |-> "rejected", index |-> 0, save |-> toolSave]

\* variant: without the test for a single entry
getActiveToolboxEntryNoShortcut(toolSave) ==
  /\ activeEntry.status = "none"
  /\ activeEntry' = FindActiveEntry(toolSave)
  /\ UNCHANGED <<toolbox, blockData>>
  /\ UNCHANGED <<blockVars, saveVars, lifeVars, callVars, composeVars, handoffVars, uiVars>>

\* getActiveToolboxEntry(): how the Promise settles, the position of the entry it
\* resolves with (0 is undefined), and how the save() behind this.data went
\* (toolSave is how this.toolInstance.save() ends)
getActiveToolboxEntry(toolSave) ==
  /\ activeEntry.status = "none"
  /\ activeEntry' = IF Len(toolbox) = 1
                    THEN [status |-> "resolved", index |-> 1, save |-> "notCalled"]
                    ELSE FindActiveEntry(toolSave)
  /\ UNCHANGED <<toolbox, blockData>>
  /\ UNCHANGED <<blockVars, saveVars, lifeVars, callVars, composeVars, handoffVars, uiVars>>

\* a Block of a tool with a toolbox, holding some data
ToolboxInit ==
  /\ BlockIdle
  /\ SaveIdle
  /\ LifeIdle
  /\ CallIdle
  /\ ComposeIdle
  /\ HandoffIdle
  /\ UiIdle
  /\ toolbox \in Toolboxes
  /\ blockData \in DataObjects
  /\ activeEntry = [status |-> "none", index |-> 0, save |-> "notCalled"]

ToolboxNext == \E toolSave \in ToolSaveOutcomes : getActiveToolboxEntry(toolSave)

ToolboxSpec == ToolboxInit /\ [][ToolboxNext]_vars

\* the Block after constructor({tool, tunesData})
SaveInit ==
  /\ BlockIdle
  /\ LifeIdle
  /\ ExtIdle
  /\ tunes \in [TuneNames -> TuneKinds]
  /\ loadedTunesData \in Bags(LoadedValues)
  /\ originalTunesData = loadedTunesData
  /\ unavailableTunesData = composeTunes(loadedTunesData)
  /\ saved = [status |-> "none", tunes |-> EmptyBag]
  /\ lastThrew = {}
  /\ lastReturned = EmptyBag
  /\ reloaded = FALSE

SaveNext ==
  \/ \E toolSave \in ToolSaveOutcomes, outcome \in TuneSaveOutcomes : save(toolSave, outcome)
  \/ Reload

SaveSpec == SaveInit /\ [][SaveNext]_vars

Init == BlockInit /\ SaveIdle /\ LifeIdle /\ ExtIdle

Next ==
  \/ willSelect
  \/ willUnselect
  \/ dispatchChange
  \/ \E batch \in Batches : MutateContent(batch)
  \/ \E el \in InputIds, mutationFree \in BOOLEAN : AddInput(el, mutationFree)
  \/ \E p \in 1..MaxInputs, mutationFree \in BOOLEAN : RemoveInput(p, mutationFree)
  \/ \E el \in InputIds : NativeInputEvent(el)
  \/ \E el \in InputIds, anchorNode \in Nodes \cup {NullNode} : handleFocus(el, anchorNode)
  \/ ReadInputs
  \/ \E element \in Nodes : SetCurrentInput(element)
  \/ Tick
  \/ \E activeElement \in Nodes, anchorNode \in Nodes \cup {NullNode}, hook \in UpdatedHooks :
       TimerFire(activeElement, anchorNode, hook)

Spec == Init /\ [][Next]_vars

\* the same Block with its steps recorded: what each run of the currentInput
\* setter and of the didMutated callback did
AuditInit == BlockStart /\ audit = NoAudit /\ SaveIdle /\ LifeIdle /\ ExtIdle

AuditNext ==
  \/ willSelect
  \/ \E el \in InputIds, mutationFree \in BOOLEAN : AddInput(el, mutationFree)
  \/ \E p \in 1..MaxInputs, mutationFree \in BOOLEAN : RemoveInput(p, mutationFree)
  \/ \E el \in InputIds, anchorNode \in Nodes \cup {NullNode} : handleFocus(el, anchorNode)
  \/ \E element \in Nodes : SetCurrentInput(element)
  \/ Tick
  \/ \E activeElement \in Nodes, anchorNode \in Nodes \cup {NullNode}, hook \in UpdatedHooks :
       TimerFire(activeElement, anchorNode, hook)

AuditSpec == AuditInit /\ [][AuditNext]_vars

\* the mutation-to-change-event machine alone: the events that reach didMutated,
\* with time passing and the pending timer firing
BurstNext ==
  \/ willSelect
  \/ willUnselect
  \/ dispatchChange
  \/ \E batch \in Batches : MutateContent(batch)
  \/ \E el \in InputIds : NativeInputEvent(el)
  \/ Tick
  \/ \E activeElement \in Nodes, anchorNode \in Nodes \cup {NullNode}, hook \in UpdatedHooks :
       TimerFire(activeElement, anchorNode, hook)

\* the same machine on a Block that is destroyed at some point
DestroyNext ==
  \/ BurstNext
  \/ \E hook \in MemberKinds : destroy(hook)

DestroySpec == Init /\ [][DestroyNext]_vars

FairSpec ==
  /\ Init
  /\ [][BurstNext]_vars
  /\ WF_vars(Tick)
  /\ WF_vars(\E activeElement \in Nodes, anchorNode \in Nodes \cup {NullNode},
                 hook \in UpdatedHooks :
               TimerFire(activeElement, anchorNode, hook))

(* ------------------------------------------------------------------ *)
(* The link inline tool: the strings of its input                      *)
(* ------------------------------------------------------------------ *)

\* A string is the sequence of its characters.

\* \s, and what trim() strips
WhiteSpace == {" "}

\* pattern.test(str) of validateURL. The pattern is matched from left to right:
\* each piece maps the set of positions a match may have reached to the
\* positions it may reach after the piece (position p: the next character to
\* read is str[p]); ^ is position 1, $ the position after the last character.
PatternTest(str) ==
  LET LowerLetters == <<"a", "b", "c", "d", "e", "f", "g", "h", "i", "j", "k", "l", "m",
                        "n", "o", "p", "q", "r", "s", "t", "u", "v", "w", "x", "y", "z">>
      UpperLetters == <<"A", "B", "C", "D", "E", "F", "G", "H", "I", "J", "K", "L", "M",
                        "N", "O", "P", "Q", "R", "S", "T", "U", "V", "W", "X", "Y", "Z">>
      \* [a-z], \d and [a-z\d] under the i flag
      Letters == Range(LowerLetters) \cup Range(UpperLetters)
      Digits == {"0", "1", "2", "3", "4", "5", "6", "7", "8", "9"}
      AlphaNum == Letters \cup Digits
      \* [-a-z\d%_.~+], [;&a-z\d%_.~+=-] and [-a-z\d_]
      PathChars == AlphaNum \cup {"-", "%", "_", ".", "~", "+"}
      QueryChars == AlphaNum \cup {";", "&", "%", "_", ".", "~", "+", "=", "-"}
      FragmentChars == AlphaNum \cup {"-", "_"}
      ToLower(c) ==
        IF \E i \in 1..Len(UpperLetters) : UpperLetters[i] = c
        THEN LowerLetters[CHOOSE i \in 1..Len(UpperLetters) : UpperLetters[i] = c]
        ELSE c
      \* a literal, letter case ignored
      AfterLiteral(from, lit) ==
        { p + Len(lit) : p \in { q \in from :
                                   /\ q + Len(lit) - 1 <= Len(str)
                                   /\ \A i \in 1..Len(lit) : ToLower(str[q + i - 1]) = lit[i] } }
      \* between min and max characters of a class
      AfterClass(from, class, min, max) ==
        { q \in 1..(Len(str) + 1) :
            \E p \in from : /\ q - p >= min
                            /\ q - p <= max
                            /\ \A i \in p..(q - 1) : str[i] \in class }
      \* [a-z\d]([a-z\d-]*[a-z\d])* : one or more characters of [a-z\d-], the
      \* first and the last of them not a hyphen
      AfterLabel(from) ==
        { q \in 1..(Len(str) + 1) :
            \E p \in from : /\ q > p
                            /\ \A i \in p..(q - 1) : str[i] \in AlphaNum \cup {"-"}
                            /\ str[p] \in AlphaNum
                            /\ str[q - 1] \in AlphaNum }
      \* (label\.)+ , at most n times
      RECURSIVE AfterLabels(_, _)
      AfterLabels(from, n) ==
        IF n = 0 THEN {}
        ELSE LET once == AfterLiteral(AfterLabel(from), <<".">>)
             IN  once \cup AfterLabels(once, n - 1)
      \* (\/[-a-z\d%_.~+]*)* , at most n times
      RECURSIVE AfterPaths(_, _)
      AfterPaths(from, n) ==
        IF n = 0 THEN from
        ELSE LET once == AfterClass(AfterLiteral(from, <<"/">>), PathChars, 0, Len(str))
             IN  from \cup AfterPaths(once, n - 1)
      \* ^(https?:\/\/)?
      AfterProtocol ==
        {1} \cup AfterLiteral({1}, <<"h", "t", "t", "p", ":", "/", "/">>)
            \cup AfterLiteral({1}, <<"h", "t", "t", "p", "s", ":", "/", "/">>)
      \* (label\.)+[a-z]{2,}
      AfterDomain == AfterClass(AfterLabels(AfterProtocol, Len(str)), Letters, 2, Len(str))
      \* (\d{1,3}\.){3}\d{1,3}
      AfterOctetDot(from) == AfterLiteral(AfterClass(from, Digits, 1, 3), <<".">>)
      AfterIPv4 ==
        AfterClass(AfterOctetDot(AfterOctetDot(AfterOctetDot(AfterProtocol))), Digits, 1, 3)
      AfterHost == AfterDomain \cup AfterIPv4
      \* (\:\d+)?
      AfterPort == AfterHost \cup AfterClass(AfterLiteral(AfterHost, <<":">>), Digits, 1, Len(str))
      AfterPath == AfterPaths(AfterPort, Len(str))
      \* (\?[;&a-z\d%_.~+=-]*)?
      AfterQuery ==
        AfterPath \cup AfterClass(AfterLiteral(AfterPath, <<"?">>), QueryChars, 0, Len(str))
      \* (\#[-a-z\d_]*)?
      AfterFragment ==
        AfterQuery \cup AfterClass(AfterLiteral(AfterQuery, <<"#">>), FragmentChars, 0, Len(str))
  IN  (Len(str) + 1) \in AfterFragment

\* String.prototype.trim
trim(str) ==
  LET RECURSIVE trimStart(_)
      trimStart(s) == IF s # <<>> /\ Head(s) \in WhiteSpace THEN trimStart(Tail(s)) ELSE s
      RECURSIVE trimEnd(_)
      trimEnd(s) ==
        IF s # <<>> /\ s[Len(s)] \in WhiteSpace THEN trimEnd(SubSeq(s, 1, Len(s) - 1)) ELSE s
  IN  trimEnd(trimStart(str))

\* 'https://'
HttpsPrefix == <<"h", "t", "t", "p", "s", ":", "/", "/">>

addProtocolAlways(link) == HttpsPrefix \o link

addProtocol(link) ==
  LET \* \w
      WordChars ==
        {"a", "b", "c", "d", "e", "f", "g", "h", "i", "j", "k", "l", "m",
         "n", "o", "p", "q", "r", "s", "t", "u", "v", "w", "x", "y", "z",
         "A", "B", "C", "D", "E", "F", "G", "H", "I", "J", "K", "L", "M",
         "N", "O", "P", "Q", "R", "S", "T", "U", "V", "W", "X", "Y", "Z",
         "0", "1", "2", "3", "4", "5", "6", "7", "8", "9", "_"}
      \* /^(\w+):(\/\/)?/.test(link)
      hasProtocol ==
        \E n \in 1..(Len(link) - 1) :
          /\ \A i \in 1..n : link[i] \in WordChars
          /\ link[n + 1] = ":"
      \* /^\/[^/\s]/.test(link)
      isInternal ==
        /\ Len(link) >= 2
        /\ link[1] = "/"
        /\ link[2] \notin {"/"} \cup WhiteSpace
      \* link.substring(0, 1) === '#'
      isAnchor == Len(link) >= 1 /\ link[1] = "#"
      \* /^\/\/[^/\s]/.test(link)
      isProtocolRelative ==
        /\ Len(link) >= 3
        /\ link[1] = "/"
        /\ link[2] = "/"
        /\ link[3] \notin {"/"} \cup WhiteSpace
  IN  IF hasProtocol THEN link
      ELSE IF ~isInternal /\ ~isAnchor /\ ~isProtocolRelative
           THEN HttpsPrefix \o link
           ELSE link

prepareLink(link) == addProtocol(trim(link))

\* what the user may have typed in the input: nothing, white space,
\* "example.com", "http://example.com", "/internal/path", "#section", "not a url"
InputValue ==
  [empty |-> <<>>,
   blank |-> <<" ", " ">>,
   bareDomain |-> <<"e", "x", "a", "m", "p", "l", "e", ".", "c", "o", "m">>,
   schemeUrl |-> <<"h", "t", "t", "p", ":", "/", "/",
                   "e", "x", "a", "m", "p", "l", "e", ".", "c", "o", "m">>,
   internalPath |-> <<"/", "i", "n", "t", "e", "r", "n", "a", "l", "/", "p", "a", "t", "h">>,
   anchorFragment |-> <<"#", "s", "e", "c", "t", "i", "o", "n">>,
   spacedText |-> <<"n", "o", "t", " ", "a", " ", "u", "r", "l">>]

InputValues == { InputValue[k] : k \in DOMAIN InputValue }

\* pattern.test(str) for the strings the input may hold (what the user typed,
\* or the href of a link the tool found or made), found once
TestedValues ==
  [str \in InputValues \cup { prepareLink(value) : value \in InputValues } |-> PatternTest(str)]

validateURL(str) ==
  IF str \in DOMAIN TestedValues THEN TestedValues[str] ELSE PatternTest(str)

(* ------------------------------------------------------------------ *)
(* The link inline tool: its state, SelectionUtils and the document    *)
(* ------------------------------------------------------------------ *)

\* the stretches of text of the Block the user may select
Ranges == 1..MaxRanges

\* SelectionUtils.range when the selection has no range (focus in the link input)
NoRange == 0

\* no <a> around a stretch of text
NoAnchor == [href |-> <<>>, target |-> "none", rel |-> "none"]

\* a link that is in the document before the tool touches it
ExistingAnchor == [href |-> InputValue.schemeUrl, target |-> "", rel |-> ""]

\* a link of the document whose href attribute is the text 'null'
NullAnchor == [href |-> <<"n", "u", "l", "l">>, target |-> "", rel |-> ""]

\* the steps of the handler that ran last are logged in `trace`
Log(s, step) == [s EXCEPT !.trace = Append(@, step)]

\* a handler starts: nothing logged, nothing thrown
Begin(s) == [s EXCEPT !.trace = <<>>, !.threw = FALSE]

\* SelectionUtils (components/selection)
setFakeBackground(s) == Log([s EXCEPT !.fake = TRUE], "setFakeBackground")

removeFakeBackground(s) == Log([s EXCEPT !.fake = FALSE], "removeFakeBackground")

selectionSave(s) == Log([s EXCEPT !.saved = s.range], "save")

restore(s) ==
  Log(IF s.saved = NoRange THEN s ELSE [s EXCEPT !.range = s.saved, !.collapsed = FALSE],
      "restore")

clearSaved(s) == [s EXCEPT !.saved = NoRange]

\* the stretch whose <a> encloses the selection, or NoRange
findParentTag(s) ==
  IF s.range # NoRange /\ s.anchors[s.range] # NoAnchor THEN s.range ELSE NoRange

expandToTag(s, tag) ==
  Log([s EXCEPT !.range = tag, !.collapsed = FALSE], "expandToTag")

collapseToEnd(s) ==
  Log(IF s.range = NoRange THEN s ELSE [s EXCEPT !.collapsed = TRUE], "collapseToEnd")

\* document.execCommand('createLink', false, link): wraps the selected text in <a href>
createLink(s, link) ==
  Log(IF s.range = NoRange \/ s.collapsed THEN s
      ELSE [s EXCEPT !.anchors[s.range] = [href |-> link, target |-> "", rel |-> ""]],
      "createLink")

\* unlink(): document.execCommand('unlink') removes the <a> around the selection
unlink(s) ==
  Log(IF findParentTag(s) = NoRange THEN s
      ELSE [s EXCEPT !.anchors[s.range] = NoAnchor],
      "unlink")

(* ------------------------------------------------------------------ *)
(* The link inline tool: its methods                                   *)
(* ------------------------------------------------------------------ *)

openActionsStaysClosed(s) == s

openActions(s) == [s EXCEPT !.inputOpened = TRUE]

closeActionsKeepsBackground(s, clearSavedSelection) ==
  [(IF clearSavedSelection THEN clearSaved(s) ELSE s)
     EXCEPT !.value = InputValue.empty, !.inputOpened = FALSE]

closeActions(s, clearSavedSelection) ==
  LET currentSelection == s.range
      exchanged == IF s.fake
                   THEN LET removed == removeFakeBackground(restore(s))
                        IN  IF currentSelection = NoRange THEN removed
                            ELSE [removed EXCEPT !.range = currentSelection]
                   ELSE s
      cleared == [exchanged EXCEPT !.value = InputValue.empty]
  IN  [(IF clearSavedSelection THEN clearSaved(cleared) ELSE cleared)
         EXCEPT !.inputOpened = FALSE]

toggleActionsOpens(s) == openActions(s)

toggleActions(s) ==
  IF ~s.inputOpened THEN openActions(s) ELSE closeActions(s, FALSE)

checkStateKeepsClasses(s) ==
  LET anchorTag == findParentTag(s)
      hrefAttr == s.anchors[anchorTag].href
  IN  IF anchorTag # NoRange
      THEN Log(selectionSave([openActions(s)
                                EXCEPT !.unlinkShown = TRUE,
                                       !.value = IF hrefAttr # NullAnchor.href
                                                 THEN hrefAttr ELSE InputValue.empty]),
               "return true")
      ELSE Log(s, "return false")

\* checkState(): the button's unlink and active classes (`unlinkShown`) are
\* added or removed together; the value it returns is logged
checkState(s) ==
  LET anchorTag == findParentTag(s)
      hrefAttr == s.anchors[anchorTag].href
  IN  IF anchorTag # NoRange
      THEN Log(selectionSave([openActions(s)
                                EXCEPT !.unlinkShown = TRUE,
                                       !.value = IF hrefAttr # NullAnchor.href
                                                 THEN hrefAttr ELSE InputValue.empty]),
               "return true")
      ELSE Log([s EXCEPT !.unlinkShown = FALSE], "return false")

surroundMarksAgain(s, range) ==
  IF range # NoRange
  THEN LET kept == selectionSave(setFakeBackground(s))
           parentAnchor == findParentTag(kept)
       IN  IF parentAnchor # NoRange
           THEN Log(checkState(closeActions(unlink(expandToTag(kept, parentAnchor)), TRUE)),
                    "toolbar.close")
           ELSE toggleActions(kept)
  ELSE toggleActions(s)

surround(s, range) ==
  IF range # NoRange
  THEN LET kept == IF ~s.inputOpened
                   THEN selectionSave(setFakeBackground(s))
                   ELSE removeFakeBackground(restore(s))
           parentAnchor == findParentTag(kept)
       IN  IF parentAnchor # NoRange
           THEN Log(checkState(closeActions(unlink(expandToTag(kept, parentAnchor)), TRUE)),
                    "toolbar.close")
           ELSE toggleActions(kept)
  ELSE toggleActions(s)

clearKeepsInput(s) == s

\* clear(): the hook the inline toolbar calls when it closes
clear(s) == closeActions(s, TRUE)

\* api.inlineToolbar.close(), which calls clear() of its tools
inlineToolbarClose(s) == clear(Log(s, "inlineToolbar.close"))

insertLink(s, link) ==
  LET anchorTag == findParentTag(s)
      linked == createLink(IF anchorTag # NoRange THEN expandToTag(s, anchorTag) ELSE s, link)
      created == findParentTag(linked)
  IN  IF created = NoRange
      THEN [linked EXCEPT !.threw = TRUE]
      ELSE Log([linked EXCEPT !.anchors[created].target = "_blank",
                              !.anchors[created].rel = "noopener noreferrer"],
               "setAttributes")

enterPressedEmptyKeepsLink(s) == closeActions(restore(s), TRUE)

\* enterPressed, the value empty after trim()
enterPressedEmpty(s) == closeActions(unlink(restore(s)), TRUE)

enterPressedInvalidCloses(s) ==
  closeActions(Log([s EXCEPT !.tooltipShown = TRUE,
                             !.hideTimers = IF s.timed THEN Append(@, 0) ELSE @],
                   "tooltip.show"), TRUE)

\* enterPressed, the value rejected by validateURL: tooltip.show, and
\* tooltip.hide in a timer of HideDelay ms (one more pending timer, where the
\* timers are followed)
enterPressedInvalid(s) ==
  Log([s EXCEPT !.tooltipShown = TRUE,
                !.hideTimers = IF s.timed THEN Append(@, 0) ELSE @],
      "tooltip.show")

enterPressedValidLinksFirst(s) ==
  LET value == prepareLink(s.value)
      linked == insertLink(Log(s, "prepareLink"), value)
  IN  IF linked.threw THEN linked
      ELSE inlineToolbarClose(collapseToEnd(removeFakeBackground(restore(linked))))

\* enterPressed, the value accepted by validateURL
enterPressedValid(s) ==
  LET value == prepareLink(s.value)
      linked == insertLink(removeFakeBackground(restore(Log(s, "prepareLink"))), value)
  IN  IF linked.threw THEN linked
      ELSE inlineToolbarClose(collapseToEnd(linked))

enterPressed(s) ==
  IF trim(s.value) = InputValue.empty THEN enterPressedEmpty(s)
  ELSE IF ~validateURL(s.value) THEN enterPressedInvalid(s)
  ELSE enterPressedValid(s)

cleanMousedownCloses(s) ==
  closeActions([unlink([s EXCEPT !.value = InputValue.empty]) EXCEPT !.unlinkShown = FALSE], FALSE)

\* the mousedown listener of the clean button
cleanMousedown(s) ==
  [unlink([s EXCEPT !.value = InputValue.empty]) EXCEPT !.unlinkShown = FALSE]

\* what a click may land on: the tool's button, the button of another inline
\* tool, anything that is not inside an inline tool's button
ClickTargets == {"ownButton", "otherButton", "elsewhere"}

documentClickKeepsOpen(s, target) ==
  IF target # "elsewhere" THEN restore(s) ELSE s

\* the click listener of the document
documentClick(s, target) ==
  IF target # "elsewhere"
  THEN LET restored == restore(s)
       IN  IF target # "ownButton" /\ s.inputOpened
           THEN closeActions(restored, TRUE)
           ELSE restored
  ELSE s

(* ------------------------------------------------------------------ *)
(* The link inline tool: the events that reach it                      *)
(* ------------------------------------------------------------------ *)

LinkUnchanged == UNCHANGED <<blockVars, saveVars, lifeVars, toolboxVars, callVars,
                             composeVars, handoffVars, tuneVars>>

\* the user selects a stretch of text; the inline toolbar asks the tool for its state
SelectText(r) ==
  /\ linkTool' = checkState(Begin([linkTool EXCEPT !.range = r, !.collapsed = FALSE]))
  /\ LinkUnchanged

\* the user clicks into the link input: the selection leaves the text
FocusInput ==
  /\ linkTool.inputOpened
  /\ linkTool.range # NoRange
  /\ linkTool' = Begin([linkTool EXCEPT !.range = NoRange, !.collapsed = FALSE])
  /\ LinkUnchanged

\* the tool's button is clicked: the inline toolbar calls surround(SelectionUtils.range),
\* then the click reaches the listener of the document. The range is null on
\* the second click, the one that closes the opened input.
ButtonClick ==
  /\ ~linkTool.collapsed
  /\ linkTool.range = NoRange => linkTool.inputOpened
  /\ linkTool' = documentClick(surround(Begin(linkTool), linkTool.range), "ownButton")
  /\ LinkUnchanged

\* keyup in the input after the user edited its value
InputKeyup(value) ==
  /\ linkTool.inputOpened
  /\ value # linkTool.value
  /\ linkTool' = [Begin(linkTool) EXCEPT !.value = value]
  /\ LinkUnchanged

\* keyup of the Enter key in the input, or mousedown on the confirm button
EnterOrConfirm ==
  /\ linkTool.inputOpened
  /\ Len(linkTool.hideTimers) = MaxTimers
       => trim(linkTool.value) = InputValue.empty \/ validateURL(linkTool.value)
  /\ linkTool' = enterPressed(Begin(linkTool))
  /\ LinkUnchanged

\* mousedown on the clean button
CleanMousedown ==
  /\ linkTool.inputOpened
  /\ linkTool' = cleanMousedown(Begin(linkTool))
  /\ LinkUnchanged

\* a click on something else than the tool's button
DocumentClick(target) ==
  /\ target # "ownButton"
  /\ linkTool' = documentClick(Begin(linkTool), target)
  /\ LinkUnchanged

\* the inline toolbar closes (the selection collapsed, Escape): it calls clear()
ToolbarCloses ==
  /\ linkTool.inputOpened
  /\ linkTool' = clear(Begin(linkTool))
  /\ LinkUnchanged

\* time passes while no hide timer is due
HideTick ==
  /\ linkTool.hideTimers # <<>>
  /\ \A i \in 1..Len(linkTool.hideTimers) : linkTool.hideTimers[i] < HideDelay
  /\ linkTool' = [Begin(linkTool)
                    EXCEPT !.hideTimers = [i \in 1..Len(@) |-> @[i] + HideTickMs]]
  /\ LinkUnchanged

\* the oldest hide timer is due: tooltip.hide()
HideFire ==
  /\ linkTool.hideTimers # <<>>
  /\ Head(linkTool.hideTimers) >= HideDelay
  /\ linkTool' = [Begin(linkTool)
                    EXCEPT !.tooltipShown = FALSE, !.hideTimers = Tail(@)]
  /\ LinkUnchanged

\* the tool after render() and renderActions(), on a document with some links
LinkStart(timed, links) ==
  /\ BlockIdle
  /\ SaveIdle
  /\ LifeIdle
  /\ ToolboxIdle
  /\ CallIdle
  /\ ComposeIdle
  /\ HandoffIdle
  /\ settings = <<>>
  /\ \E anchors \in [Ranges -> {NoAnchor} \cup links] :
       linkTool = [inputOpened |-> FALSE, value |-> InputValue.empty,
                   fake |-> FALSE, saved |-> NoRange,
                   range |-> NoRange, collapsed |-> FALSE, anchors |-> anchors,
                   unlinkShown |-> FALSE,
                   tooltipShown |-> FALSE, timed |-> timed, hideTimers |-> <<>>,
                   trace |-> <<>>, threw |-> FALSE]

\* the tool and its user, the tooltip's timers left aside
LinkInit == LinkStart(FALSE, {ExistingAnchor})

LinkNext ==
  \/ \E r \in Ranges : SelectText(r)
  \/ FocusInput
  \/ ButtonClick
  \/ \E value \in InputValues : InputKeyup(value)
  \/ EnterOrConfirm
  \/ CleanMousedown
  \/ \E target \in ClickTargets \ {"ownButton"} : DocumentClick(target)
  \/ ToolbarCloses

LinkSpec == LinkInit /\ [][LinkNext]_vars

\* the user opening the input, typing and confirming, with the tooltip's timers
TooltipInit == LinkStart(TRUE, {ExistingAnchor})

TooltipNext ==
  \/ \E r \in Ranges : SelectText(r)
  \/ ButtonClick
  \/ \E value \in InputValues : InputKeyup(value)
  \/ EnterOrConfirm
  \/ HideTick
  \/ HideFire

TooltipSpec == TooltipInit /\ [][TooltipNext]_vars

\* the user selecting text and linking, editing and unlinking it, on a
\* document that also has a link whose href is 'null'
EditInit == LinkStart(FALSE, {ExistingAnchor, NullAnchor})

EditNext ==
  \/ \E r \in Ranges : SelectText(r)
  \/ ButtonClick
  \/ \E value \in {InputValue.empty, InputValue.bareDomain} : InputKeyup(value)
  \/ EnterOrConfirm
  \/ CleanMousedown

EditSpec == EditInit /\ [][EditNext]_vars

(* ------------------------------------------------------------------ *)
(* The block tunes of the settings panel: delete, move up, move down   *)
(* ------------------------------------------------------------------ *)

\* api.events keeps a list of callbacks for 'block-settings-closed': its
\* greatest length
MaxSubscriptions == 2

\* getCurrentBlockIndex() while the editor has no current Block
NoBlock == -1

\* a call the handler that ran last made, with its argument
Called(name, arg) == [call |-> name, arg |-> arg]

\* api.blocks.getBlockByIndex(index): the Block at the index (from 0), 0 for undefined
getBlockByIndex(s, index) ==
  IF index + 1 \in 1..Len(s.blocks) THEN s.blocks[index + 1] ELSE 0

\* s.blocks without the Block at the index
Without(s, index) ==
  [i \in 1..(Len(s.blocks) - 1) |-> IF i < index + 1 THEN s.blocks[i] ELSE s.blocks[i + 1]]

\* api.blocks.move(toIndex): the current Block is taken out and put back at
\* toIndex, and stays the current one; nothing moves if an index is out of range
move(s, toIndex) ==
  LET fromIndex == s.current
      moved == [i \in 1..Len(s.blocks) |->
                  IF i < toIndex + 1 THEN Without(s, fromIndex)[i]
                  ELSE IF i = toIndex + 1 THEN s.blocks[fromIndex + 1]
                  ELSE Without(s, fromIndex)[i - 1]]
  IN  Log(IF getBlockByIndex(s, toIndex) # 0 /\ getBlockByIndex(s, fromIndex) # 0
          THEN [s EXCEPT !.blocks = moved, !.current = toIndex]
          ELSE s,
          Called("blocks.move", toIndex))

\* api.blocks.delete(): the current Block is removed, if there is one
delete(s) ==
  LET index == s.current
  IN  Log(IF getBlockByIndex(s, index) = 0 THEN s
          ELSE [s EXCEPT !.blocks = Without(s, index),
                         !.current = IF Len(s.blocks) = 1 THEN NoBlock
                                     ELSE IF index = 0 THEN 0 ELSE index - 1],
          Called("blocks.delete", index))

\* setConfirmation(state) of the DeleteTune of a Block: the confirm class is
\* added whatever the state
setConfirmation(s, tune, state) ==
  [s EXCEPT !.needConfirmation[tune] = state, !.confirmShown[tune] = TRUE]

\* the settings panel closes: 'block-settings-closed' is emitted and
\* resetConfirmation runs for every tune that is subscribed
settingsClosed(s) ==
  [s EXCEPT !.panel = 0,
            !.needConfirmation =
               [t \in Blocks |-> IF s.subscriptions[t] > 0
                                 THEN setConfirmation(s, t, FALSE).needConfirmation[t]
                                 ELSE s.needConfirmation[t]],
            !.confirmShown =
               [t \in Blocks |-> IF s.subscriptions[t] > 0
                                 THEN setConfirmation(s, t, FALSE).confirmShown[t]
                                 ELSE s.confirmShown[t]]]

\* api.toolbar.close(), which closes the settings panel with the toolbar
toolbarClose(s) == Log(settingsClosed(s), Called("toolbar.close", NoBlock))

deleteTuneHandleClickAtOnce(s) ==
  LET tune == s.panel
      unsubscribed == Log([s EXCEPT !.subscriptions[tune] = IF @ > 0 THEN @ - 1 ELSE 0],
                          Called("events.off", tune))
  IN  Log(toolbarClose(delete(unsubscribed)), Called("tooltip.hide", NoBlock))

\* DeleteTune.handleClick of the tune whose button the panel shows
\* (needConfirmation, never initialised, starts falsy)
deleteTuneHandleClick(s) ==
  LET tune == s.panel
      unsubscribed == Log([s EXCEPT !.subscriptions[tune] = IF @ > 0 THEN @ - 1 ELSE 0],
                          Called("events.off", tune))
  IN  IF ~s.needConfirmation[tune]
      THEN Log([setConfirmation(s, tune, TRUE) EXCEPT !.subscriptions[tune] = @ + 1],
               Called("events.on", tune))
      ELSE Log(toolbarClose(delete(unsubscribed)), Called("tooltip.hide", NoBlock))

moveUpHandleClickUnguarded(s) ==
  LET currentBlockIndex == s.current
  IN  Log(move(Log(s, Called("scrollBy", NoBlock)), currentBlockIndex - 1),
          Called("tooltip.hide", NoBlock))

\* MoveUpTune.handleClick
moveUpHandleClick(s) ==
  LET currentBlockIndex == s.current
      currentBlock == getBlockByIndex(s, currentBlockIndex)
      previousBlock == getBlockByIndex(s, currentBlockIndex - 1)
  IN  IF currentBlockIndex = 0 \/ currentBlock = 0 \/ previousBlock = 0
      THEN Log(s, Called("animation", NoBlock))
      ELSE Log(move(Log(s, Called("scrollBy", NoBlock)), currentBlockIndex - 1),
               Called("tooltip.hide", NoBlock))

\* MoveDownTune.handleClick
moveDownHandleClick(s) ==
  LET currentBlockIndex == s.current
      nextBlock == getBlockByIndex(s, currentBlockIndex + 1)
  IN  IF nextBlock = 0
      THEN Log(s, Called("animation", NoBlock))
      ELSE Log(move(Log(s, Called("scrollTo", NoBlock)), currentBlockIndex + 1),
               Called("tooltip.hide", NoBlock))

\* a step of the settings panel: the handler's calls are logged anew
TuneStep(after) ==
  /\ settings' = after
  /\ UNCHANGED <<blockVars, saveVars, lifeVars, toolboxVars, callVars, composeVars,
                 handoffVars, linkVars>>

\* the user opens the settings of the Block at an index, which becomes the current one
OpenSettings(index) ==
  /\ settings.panel = 0
  /\ getBlockByIndex(settings, index) # 0
  /\ TuneStep([settings EXCEPT !.trace = <<>>, !.current = index,
                               !.panel = getBlockByIndex(settings, index)])

\* the user closes the settings panel
CloseSettings ==
  /\ settings.panel # 0
  /\ TuneStep(settingsClosed([settings EXCEPT !.trace = <<>>]))

\* the editor drops its current Block pointer while the panel is shown
DropPointer ==
  /\ settings.panel # 0
  /\ settings.current # NoBlock
  /\ TuneStep([settings EXCEPT !.trace = <<>>, !.current = NoBlock])

\* a click on the delete button of the panel
DeleteClick ==
  LET RECURSIVE listed(_)
      listed(t) == IF t = 0 THEN 0 ELSE settings.subscriptions[t] + listed(t - 1)
  IN  /\ settings.panel # 0
      /\ settings.needConfirmation[settings.panel] \/ listed(MaxBlocks) < MaxSubscriptions
      /\ TuneStep(deleteTuneHandleClick([settings EXCEPT !.trace = <<>>]))

\* a click on the move up button of the panel
MoveUpClick ==
  /\ settings.panel # 0
  /\ TuneStep(moveUpHandleClick([settings EXCEPT !.trace = <<>>]))

\* a click on the move down button of the panel
MoveDownClick ==
  /\ settings.panel # 0
  /\ TuneStep(moveDownHandleClick([settings EXCEPT !.trace = <<>>]))

\* the editor with its Blocks rendered, no Block current, the panel closed
TunesInit ==
  /\ BlockIdle
  /\ SaveIdle
  /\ LifeIdle
  /\ ToolboxIdle
  /\ CallIdle
  /\ ComposeIdle
  /\ HandoffIdle
  /\ linkTool = <<>>
  /\ settings = [blocks |-> [i \in 1..MaxBlocks |-> i], current |-> NoBlock, panel |-> 0,
                 needConfirmation |-> [t \in Blocks |-> FALSE],
                 confirmShown |-> [t \in Blocks |-> FALSE],
                 subscriptions |-> [t \in Blocks |-> 0],
                 trace |-> <<>>]

TunesNext ==
  \/ \E index \in 0..(MaxBlocks - 1) : OpenSettings(index)
  \/ CloseSettings
  \/ DropPointer
  \/ DeleteClick
  \/ MoveUpClick
  \/ MoveDownClick

TunesSpec == TunesInit /\ [][TunesNext]_vars

(* ------------------------------------------------------------------ *)
(* Properties                                                          *)
(* ------------------------------------------------------------------ *)

\* the markers of the nodes added or removed in the batch the callback was called with
RecordMarks(rec) ==
  { rec.addedNodes[n] : n \in 1..Len(rec.addedNodes) } \cup
  { rec.removedNodes[n] : n \in 1..Len(rec.removedNodes) }

ArgMarks(arg) == UNION { RecordMarks(arg.records[r]) : r \in 1..Len(arg.records) }

SomeNodeMarked(arg) == TRUE \in ArgMarks(arg)

EveryNodeMarked(arg) == FALSE \notin ArgMarks(arg)

\* the timer was last (re)started by the MutationObserver's callback
ArmedByMutation == timerArgs.kind = "MutationRecords" /\ Len(timerArgs.records) > 0

\* the timer was last (re)started by dispatchChange()
ArmedByDispatch == timerArgs.kind = "MutationRecords" /\ Len(timerArgs.records) = 0

CallbackRan == lastStep \in {"discarded", "notified", "threw"}

\* C1: every event delivered to the Block restarts the one debounce timer; the
\* callback runs (and didMutated is emitted) only once 450 ms have passed without
\* an event, and at most one emission follows a burst, whatever its size.
C1_DebounceWindow ==
  /\ lastStep = "armed" => timerArmed /\ elapsed = 0
  /\ CallbackRan => ~ timerArmed /\ elapsed >= 450
  /\ burstEmits <= 1

C1_Witness == lastStep = "notified" /\ burstCalls >= 2

\* C2 as stated: a batch is discarded only when every node added or removed in it
\* is marked mutation-free.
C2_Original ==
  (lastStep = "discarded" /\ ArmedByMutation) => EveryNodeMarked(timerArgs)

\* C2 amended: a batch is discarded exactly when at least one node added or removed
\* in it is marked mutation-free (a batch in which only some nodes carry the marker
\* is discarded too); a batch with no marked node produces the notification.
C2_DiscardedIffSomeMarked ==
  (CallbackRan /\ ArmedByMutation) =>
    (lastStep = "discarded" <=> SomeNodeMarked(timerArgs))

C2_Witness ==
  lastStep = "discarded" /\ ArmedByMutation /\ ~ EveryNodeMarked(timerArgs)

\* C3 as stated, for a Block that has inputs and has read them since the last
\* change of the holder: the input index lies within [0, inputs.length - 1].
C3_IndexInRange ==
  (Len(holderInputs) > 0 /\ cachedInputs = holderInputs) =>
    inputIndex \in 0..(Len(holderInputs) - 1)

\* C4 as stated, for a Block whose loaded tunesData names no registered tune: in
\* every save() a tune whose save() throws has no entry in the returned tunes, and
\* every tune whose save() returned has its output there.
C4_ThrowingTuneExcluded ==
  (saved.status = "resolved" /\
   DOMAIN originalTunesData \cap (tunesInstances \cup defaultTunesInstances) = {}) =>
    /\ \A n \in lastThrew : n \notin DOMAIN saved.tunes
    /\ \A n \in DOMAIN lastReturned :
         n \in DOMAIN saved.tunes /\ saved.tunes[n] = lastReturned[n]

\* C5: every tune name of the loaded tunesData that is not registered for the tool
\* is in the tunes of the record save() resolves with, with the loaded value, also
\* in the Block constructed from a saved record.
C5_UnavailableRoundTrip ==
  saved.status = "resolved" =>
    \A n \in DOMAIN originalTunesData :
      tunes[n] = "absent" =>
        /\ n \in DOMAIN loadedTunesData /\ loadedTunesData[n] = originalTunesData[n]
        /\ n \in DOMAIN saved.tunes /\ saved.tunes[n] = originalTunesData[n]

C5_Witness ==
  /\ reloaded
  /\ saved.status = "resolved"
  /\ \E n \in DOMAIN originalTunesData : tunes[n] = "absent"
  /\ \E n \in DOMAIN saved.tunes : tunes[n] # "absent"

\* C6 as stated: save() never rejects; a failure of the tool's save makes it resolve
\* with undefined.
C6_SaveNeverRejects == saved.status # "rejected"

C8_Original == (lastStep = "notified" /\ ArmedByMutation) => observing

\* C8 amended: willUnselect() does not cancel the timer; when a timer armed by a
\* mutation fires after willUnselect() the callback runs as for a selected Block:
\* unless the batch has a mutation-free node it drops the cache, calls the updated
\* hook and, if call() returns, emits didMutated once.
C8_FiresAfterUnselect ==
  (CallbackRan /\ ArmedByMutation /\ ~ observing /\ ~ SomeNodeMarked(timerArgs)) =>
    /\ lastStep # "discarded"
    /\ cachedInputs = holderInputs
    /\ lastStep = "notified" => burstEmits = 1

C8_Witness ==
  lastStep = "notified" /\ ArmedByMutation /\ ~ observing /\ burstCalls = 1

\* C9 as stated: when dispatchChange() returns, didMutated has been emitted.
C9_Original == (lastStep = "armed" /\ ArmedByDispatch) => burstEmits >= 1

\* C9 amended: dispatchChange() calls the debounced didMutated without arguments,
\* selected or not: when it returns the timer is armed and nothing has been
\* notified; the callback runs when the timer fires, 450 ms after the last call,
\* the mutation-free guard never discards it, and it emits didMutated once if
\* call() returns.
C9_DispatchIsDebounced ==
  /\ (lastStep = "armed" /\ ArmedByDispatch) => timerArmed /\ elapsed = 0 /\ burstEmits = 0
  /\ (CallbackRan /\ ArmedByDispatch) =>
       /\ lastStep # "discarded"
       /\ elapsed >= 450
       /\ lastStep = "notified" => burstEmits = 1

C9_Witness ==
  lastStep = "notified" /\ ArmedByDispatch /\ ~ observing /\ ~ cycled

\* C10: once no further event arrives, a pending timer whose batch has no
\* mutation-free node leads to exactly one didMutated emission, and a burst never
\* has more than one.
C10_ExactlyOneEmission ==
  /\ [](burstEmits <= 1)
  /\ (timerArmed /\ opsLeft = 0 /\ ArmedByMutation /\ ~ SomeNodeMarked(timerArgs))
       ~> (lastStep = "notified" /\ burstEmits = 1)

\* C11: while the Block is selected, a native input event on a native input of
\* the holder, also one added after willSelect(), is never lost: it (re)starts
\* the timer, and the callback run for an InputEvent is never discarded.
C11_NativeInputAlwaysArms ==
  /\ observing => lastStep # "ignored"
  /\ (CallbackRan /\ timerArgs.kind = "InputEvent") => lastStep # "discarded"

\* C12: on a tool with exactly one toolbox entry getActiveToolboxEntry() resolves
\* to that entry, whatever the Block's data, and save() is not called.
C12_SingleEntryIsActive ==
  (activeEntry.status # "none" /\ Len(toolbox) = 1) =>
    /\ activeEntry.status = "resolved"
    /\ activeEntry.index = 1
    /\ activeEntry.save = "notCalled"

\* the single entry is returned although none of its declared properties has
\* the Block's value
C12_Witness ==
  /\ Len(toolbox) = 1
  /\ activeEntry.status = "resolved"
  /\ activeEntry.index = 1
  /\ toolbox[1].declared
  /\ DOMAIN toolbox[1].data = DataKeys
  /\ DOMAIN blockData = DataKeys
  /\ \A propName \in DataKeys : toolbox[1].data[propName] # blockData[propName]

\* an entry all of whose declared properties have the Block's values
AllKeysEqual(item) ==
  /\ item.declared
  /\ \A propName \in DOMAIN item.data :
       propName \in DOMAIN blockData /\ blockData[propName] = item.data[propName]

\* an entry one of whose declared properties has the Block's value, a truthy one
SomeKeyEqual(item) ==
  /\ item.declared
  /\ \E propName \in DOMAIN item.data \cap DOMAIN blockData :
       blockData[propName] # 0 /\ blockData[propName] = item.data[propName]

\* the first position of a set of positions, 0 when there is none
FirstOf(positions) ==
  IF positions = {} THEN 0 ELSE CHOOSE i \in positions : \A j \in positions : i <= j

\* C13 as stated: with several entries the result is the first entry all of whose
\* declared properties deep-equal the Block's values, undefined when there is none.
C13_Original ==
  (activeEntry.status = "resolved" /\ Len(toolbox) > 1) =>
    activeEntry.index = FirstOf({ i \in 1..Len(toolbox) : AllKeysEqual(toolbox[i]) })

\* C13 amended: with several entries save() is called; the result is the first
\* entry at least one of whose declared properties has a truthy Block value
\* deep-equal to the declared one, undefined when there is none; the Promise
\* rejects when save() rejects or an entry without data comes before every such
\* entry.
C13_FirstSomeMatch ==
  (activeEntry.status # "none" /\ Len(toolbox) > 1) =>
    LET hits == { i \in 1..Len(toolbox) : SomeKeyEqual(toolbox[i]) }
        bare == { i \in 1..Len(toolbox) : ~ toolbox[i].declared }
        throws == bare # {} /\ (hits = {} \/ FirstOf(bare) < FirstOf(hits))
    IN  /\ activeEntry.save # "notCalled"
        /\ activeEntry.status = "rejected" <=> (activeEntry.save # "returns" \/ throws)
        /\ activeEntry.status = "resolved" => activeEntry.index = FirstOf(hits)

\* the entry returned has a declared property whose value differs from the Block's
C13_Witness ==
  /\ Len(toolbox) > 1
  /\ activeEntry.status = "resolved"
  /\ activeEntry.index > 0
  /\ \E propName \in DOMAIN toolbox[activeEntry.index].data \cap DOMAIN blockData :
       toolbox[activeEntry.index].data[propName] # blockData[propName]

\* C14: call(methodName) invokes the tool's member of that name exactly once if
\* and only if it exists and is a function, and always returns normally, also
\* when the member throws; the Block's fields are as before the call.
C14_CallNeverThrows ==
  called.methodName # "none" =>
    /\ called.invoked = IF toolMembers[called.methodName] \in {"absent", "notFunction"}
                        THEN 0 ELSE 1
    /\ called.returned
    /\ BlockIdle

\* the tunes registered as user tunes / as default tunes, in registration order
UserTunesInOrder == SelectSeq(tuneOrder, LAMBDA n : tunes[n] = "user")

DefaultTunesInOrder == SelectSeq(tuneOrder, LAMBDA n : tunes[n] = "internal")

\* C15: the node compose() appends is the content node wrapped by the user tunes
\* and then the default tunes, each group in registration order, each wrap around
\* the result of the previous successful one; a tune without wrap or whose wrap
\* throws contributes nothing.
C15_WrapFold ==
  composed.done =>
    composed.node = SelectSeq(UserTunesInOrder \o DefaultTunesInOrder,
                              LAMBDA n : wrapKinds[n] = "wraps")

\* a default tune registered first wraps outside a user tune registered last,
\* and the user tune between them threw
C15_Witness ==
  /\ composed.done
  /\ Len(tuneOrder) = 3
  /\ tunes[tuneOrder[1]] = "internal"
  /\ tunes[tuneOrder[2]] = "user"
  /\ tunes[tuneOrder[3]] = "user"
  /\ wrapKinds[tuneOrder[1]] = "wraps"
  /\ wrapKinds[tuneOrder[2]] = "throws"
  /\ wrapKinds[tuneOrder[3]] = "wraps"
  /\ composed.node = <<tuneOrder[3], tuneOrder[1]>>

\* positions of the discovered inputs that are the element or contain it (the
\* inputs the setter searched are the cache it leaves behind)
FoundAt(inputs, element) ==
  { p \in 1..Len(inputs) : element \in InputIds /\ inputs[p] = element }

\* C16 as stated, on a Block that has inputs: the setter moves the index to the
\* position of the input that is or contains the node, and leaves it unchanged
\* for any other node.
C16_Original ==
  [][ (audit'.setter /\ Len(cachedInputs') > 0) =>
        LET found == FoundAt(cachedInputs', audit'.element)
        IN  inputIndex' = IF found # {} THEN FirstOf(found) - 1 ELSE inputIndex ]_vars

\* C16 amended: the setter first reads inputs, which on an empty cache
\* re-discovers the inputs and lowers an index beyond the last input to
\* inputs.length - 1; the index then becomes the position of the first input that
\* is or contains the node, and for any other node stays as the read left it.
C16_IndexAfterSetter ==
  [][ audit'.setter =>
        LET found == FoundAt(cachedInputs', audit'.element)
            refreshed == audit'.dropped \/ cachedInputs = <<>>
            last == Len(cachedInputs') - 1
        IN  inputIndex' = IF found # {} THEN FirstOf(found) - 1
                          ELSE IF refreshed /\ inputIndex > last THEN last
                          ELSE inputIndex ]_vars

\* the setter was given a node outside every input, right after the cache was
\* dropped, on a Block that has inputs, and the index is on the last input
C16_Witness ==
  /\ audit.setter
  /\ audit.dropped
  /\ audit.element = 0
  /\ Len(cachedInputs) = 1
  /\ Len(cachedInputs) < MaxInputs
  /\ inputIndex = 0
  /\ opsLeft < MaxOps

\* C17: once the callback has processed a batch delivered by the observer, the
\* cache is not stale: inputs returns the editable elements that are in the
\* holder, in document order.
C17_CacheFreshAfterMutation ==
  (CallbackRan /\ ArmedByMutation) => InputsOf(cachedInputs) = holderInputs

\* C18: after destroy(), also on a Block that is still selected, no DOM mutation
\* reaches didMutated: no mutation batch (re)starts the timer, so none leads to
\* an updated call or a didMutated emission.
C18_NoObservationAfterDestroy ==
  destroyed.done => ~ (lastStep = "armed" /\ ArmedByMutation)

\* C19 as stated: whatever the sequence of willSelect/willUnselect calls on the
\* Blocks, at most one Block has a connected observer.
C19_Original == Cardinality(observers) <= 1

\* C19 amended: a Block's observer is connected exactly from its willSelect() to
\* its next willUnselect(), whatever happens to the other Blocks; so at most one
\* observer is connected as long as every willSelect() came when no other Block
\* was selected.
C19_HandoffByCaller ==
  /\ observers = callerSelected
  /\ disciplined => Cardinality(observers) <= 1

\* the selection was handed from one Block to another: the first one was
\* notified of a mutation seen while selected, the second one is observed now
C19_Witness ==
  /\ disciplined
  /\ Cardinality(observers) = 1
  /\ notifiedBlock # 0
  /\ notifiedBlock \notin observers

\* C20: a run of the callback that is not discarded drops the cache, recomputes
\* the current input from the selection anchor (from the active element when
\* that is a native input or there is no anchor), calls the updated hook if the
\* tool has one, and emits didMutated, in this order; the emission is there
\* also when the hook threw.
C20_CallbackOrder ==
  audit.trace # <<>> =>
    LET steps == SelectSeq(audit.trace, LAMBDA e : e # "log")
    IN  /\ steps \in { <<"cachedInputs", "updateCurrentInput", "updated", "didMutated">>,
                       <<"cachedInputs", "updateCurrentInput", "didMutated">> }
        /\ cachedInputs = holderInputs
        /\ audit.element =
             IF (audit.activeElement \in InputIds /\ audit.activeElement % 2 = 1)
                \/ audit.anchorNode = NullNode
             THEN audit.activeElement
             ELSE audit.anchorNode

(* ------------------------------------------------------------------ *)
(* Properties of the link inline tool                                  *)
(* ------------------------------------------------------------------ *)

\* the handler that ran last made this call
Issued(s, step) == \E i \in 1..Len(s.trace) : s.trace[i] = step

\* ... and made the first call before the second
IssuedBefore(s, first, second) ==
  \E i, j \in 1..Len(s.trace) : i < j /\ s.trace[i] = first /\ s.trace[j] = second

\* ... and began with these calls
StartsWith(s, steps) ==
  Len(s.trace) >= Len(steps) /\ SubSeq(s.trace, 1, Len(steps)) = steps

\* the selection the tool works on: the one it saved when the input opened,
\* the native one while the input is closed
TrackedRange(s) == IF s.inputOpened /\ s.saved # NoRange THEN s.saved ELSE s.range

InsideAnchor(s) == TrackedRange(s) # NoRange /\ s.anchors[TrackedRange(s)] # NoAnchor

\* C21: a click on the tool's button (surround with a range) while the input
\* is closed and no anchor encloses the selection leaves the input opened, the
\* fake background active and the clicked selection saved.
C21_ClickOpensInput ==
  [][(~linkTool.inputOpened /\ linkTool.range # NoRange /\ ~InsideAnchor(linkTool) /\ ButtonClick)
       => /\ linkTool'.inputOpened
          /\ linkTool'.fake
          /\ linkTool'.saved = linkTool.range
          /\ IssuedBefore(linkTool', "setFakeBackground", "save")]_vars

C21_Witness ==
  /\ StartsWith(linkTool, <<"setFakeBackground", "save">>)
  /\ ~Issued(linkTool, "unlink")
  /\ linkTool.inputOpened
  /\ linkTool.fake
  /\ linkTool.saved # NoRange

\* C22: a click on the tool's button with a range, while an anchor encloses the
\* selection, unlinks in that one step, the input open or closed before: the
\* range is expanded to the anchor, unlink is applied and removes the anchor,
\* the input ends closed with no fake background, the button's unlink state is
\* refreshed (off, no anchor being left), the toolbar is closed, and no
\* createLink is issued.
C22_ClickUnlinks ==
  [][(linkTool.range # NoRange /\ InsideAnchor(linkTool) /\ ButtonClick)
       => /\ IssuedBefore(linkTool', "expandToTag", "unlink")
          /\ IssuedBefore(linkTool', "unlink", "toolbar.close")
          /\ ~Issued(linkTool', "createLink")
          /\ linkTool'.anchors = [linkTool.anchors EXCEPT ![TrackedRange(linkTool)] = NoAnchor]
          /\ ~linkTool'.inputOpened
          /\ ~linkTool'.fake
          /\ ~linkTool'.unlinkShown]_vars

\* reached from an opened input
C22_Witness ==
  /\ StartsWith(linkTool, <<"restore", "removeFakeBackground", "expandToTag", "unlink">>)
  /\ Issued(linkTool, "toolbar.close")
  /\ ~linkTool.inputOpened

\* C23: a click on the tool's button while the input is open and no anchor
\* encloses the selection closes the input without committing: the saved
\* selection is the native one again, the fake background is off, inputOpened
\* is false, the input's value is empty, and neither createLink nor unlink was
\* issued.
C23_SecondClickCloses ==
  [][(linkTool.inputOpened /\ ~InsideAnchor(linkTool) /\ ButtonClick)
       => /\ Issued(linkTool', "restore")
          /\ linkTool'.range = linkTool.saved
          /\ ~linkTool'.fake
          /\ ~linkTool'.inputOpened
          /\ linkTool'.value = InputValue.empty
          /\ ~Issued(linkTool', "createLink")
          /\ ~Issued(linkTool', "unlink")
          /\ linkTool'.anchors = linkTool.anchors]_vars

C23_Witness ==
  /\ StartsWith(linkTool, <<"restore", "removeFakeBackground">>)
  /\ ~Issued(linkTool, "unlink")
  /\ ~linkTool.inputOpened
  /\ linkTool.saved # NoRange
  /\ linkTool.range = linkTool.saved

\* C24: Enter or the confirm button while the input's value is empty or only
\* whitespace restores the saved selection, applies unlink and closes the
\* input: an anchor around the selection is removed, a document with no anchor
\* there is left as it was, and nothing is thrown.
C24_EmptyConfirmUnlinks ==
  [][(linkTool.value \in {InputValue.empty, InputValue.blank} /\ EnterOrConfirm)
       => /\ StartsWith(linkTool', <<"restore", "unlink">>)
          /\ ~linkTool'.inputOpened
          /\ ~linkTool'.fake
          /\ ~linkTool'.threw
          /\ ~Issued(linkTool', "createLink")
          /\ linkTool'.anchors =
               IF InsideAnchor(linkTool)
               THEN [linkTool.anchors EXCEPT ![TrackedRange(linkTool)] = NoAnchor]
               ELSE linkTool.anchors]_vars

\* the anchor the button still shows as linked was removed by it
C24_Witness ==
  /\ StartsWith(linkTool, <<"restore", "unlink">>)
  /\ ~linkTool.inputOpened
  /\ linkTool.unlinkShown
  /\ linkTool.range # NoRange
  /\ linkTool.anchors[linkTool.range] = NoAnchor

\* the values of the input validateURL rejects
Rejected(value) == trim(value) # InputValue.empty /\ ~validateURL(value)

\* C25: Enter or the confirm button with a non-empty value that fails the URL
\* validation shows the tooltip and arms a timer that hides it HideDelay
\* (1000) ms later, and changes nothing else: the input stays open with its
\* value, the fake background and the saved selection are kept, no createLink
\* is issued and nothing is thrown. Each hide timer fires when 1000 ms have
\* passed since it was armed, and hides the tooltip.
C25_InvalidShowsTooltip ==
  [][/\ (Rejected(linkTool.value) /\ EnterOrConfirm)
          => linkTool' = [linkTool EXCEPT !.tooltipShown = TRUE,
                                          !.hideTimers = Append(@, 0),
                                          !.trace = <<"tooltip.show">>,
                                          !.threw = FALSE]
     /\ HideTick => \A i \in 1..Len(linkTool'.hideTimers) :
                      linkTool'.hideTimers[i] < HideDelay + HideTickMs
     /\ HideFire => /\ Head(linkTool.hideTimers) >= HideDelay
                    /\ ~linkTool'.tooltipShown]_vars

\* the tooltip is up for the value with spaces, the input still open, half of
\* the delay gone
C25_Witness ==
  /\ linkTool.tooltipShown
  /\ linkTool.inputOpened
  /\ linkTool.value = InputValue.spacedText
  /\ linkTool.fake
  /\ linkTool.saved # NoRange
  /\ linkTool.hideTimers = <<HideTickMs>>

\* the calls of a commit, in the order of the claim
CommitSteps(expanded) ==
  <<"prepareLink", "restore", "removeFakeBackground">>
    \o (IF expanded THEN <<"expandToTag">> ELSE <<>>)
    \o <<"createLink", "setAttributes", "collapseToEnd", "inlineToolbar.close">>

\* C26: Enter or the confirm button with a valid value does, in this order:
\* normalize the link, restore the saved selection, remove the fake background,
\* createLink over the range (expanded to the enclosing anchor when there is
\* one), set the anchor's target to _blank and its rel to noopener noreferrer,
\* collapse the selection to its end, close the inline toolbar.
C26_CommitOrder ==
  [][(trim(linkTool.value) # InputValue.empty /\ validateURL(linkTool.value) /\ EnterOrConfirm)
       => /\ linkTool'.trace = CommitSteps(InsideAnchor(linkTool))
          /\ ~linkTool'.threw
          /\ ~linkTool'.fake
          /\ linkTool'.collapsed
          /\ linkTool'.range = linkTool.saved
          /\ linkTool'.anchors =
               [linkTool.anchors EXCEPT ![linkTool.saved] =
                  [href |-> prepareLink(linkTool.value), target |-> "_blank",
                   rel |-> "noopener noreferrer"]]]_vars

\* an existing link was edited
C26_Witness ==
  /\ linkTool.trace = CommitSteps(TRUE)
  /\ linkTool.collapsed
  /\ linkTool.anchors[linkTool.range].target = "_blank"
  /\ linkTool.anchors[linkTool.range].rel = "noopener noreferrer"

\* "https://example.com"
HttpsExampleCom ==
  <<"h", "t", "t", "p", "s", ":", "/", "/", "e", "x", "a", "m", "p", "l", "e", ".", "c", "o", "m">>

\* "http://example.com"
HttpExampleCom ==
  <<"h", "t", "t", "p", ":", "/", "/", "e", "x", "a", "m", "p", "l", "e", ".", "c", "o", "m">>

C28_RelativeCommitted ==
  [][(linkTool.value \in {InputValue.internalPath, InputValue.anchorFragment} /\ EnterOrConfirm)
       => /\ Issued(linkTool', "createLink")
          /\ linkTool'.anchors[linkTool.saved].href = linkTool.value]_vars

\* C29: the clean button empties the input, applies unlink and takes the
\* unlink state off the button, and leaves the input open: inputOpened, the
\* saved selection and the fake background are as before.
C29_CleanKeepsInputOpen ==
  [][CleanMousedown
       => /\ linkTool'.value = InputValue.empty
          /\ linkTool'.trace = <<"unlink">>
          /\ ~linkTool'.unlinkShown
          /\ linkTool'.inputOpened = linkTool.inputOpened
          /\ linkTool'.inputOpened
          /\ linkTool'.saved = linkTool.saved
          /\ linkTool'.fake = linkTool.fake]_vars

\* the clean button took a link and its value away
C29_Witness ==
  /\ linkTool.trace = <<"unlink">>
  /\ linkTool.inputOpened
  /\ linkTool.value = InputValue.empty
  /\ linkTool.saved # NoRange
  /\ linkTool.anchors[linkTool.saved] = NoAnchor
  /\ linkTool.range = linkTool.saved

\* a click on `target` closed the opened input and restored the saved selection
ClickCloses(target) ==
  (linkTool.inputOpened /\ DocumentClick(target))
    => /\ Issued(linkTool', "restore")
       /\ ~linkTool'.inputOpened
       /\ ~linkTool'.fake

\* C30: while the input is open, a click on the button of another inline tool
\* restores the saved selection and closes the input (inputOpened false, fake
\* background off); a click that lands outside every inline tool's button
\* leaves the input, the fake background and the selection as they are.
C30_OtherButtonCloses ==
  [][/\ ClickCloses("otherButton")
     /\ (linkTool.inputOpened /\ DocumentClick("elsewhere"))
          => linkTool' = Begin(linkTool)]_vars

C30_Witness ==
  /\ StartsWith(linkTool, <<"restore", "restore", "removeFakeBackground">>)
  /\ ~linkTool.inputOpened
  /\ ~linkTool.fake
  /\ linkTool.saved = NoRange

\* C30 as stated: wherever the click lands, the button of the tool excepted
C30_Original ==
  [][\A target \in ClickTargets \ {"ownButton"} : ClickCloses(target)]_vars

\* the handler that ran last called checkState()
Checked(s) == Issued(s, "return true") \/ Issued(s, "return false")

\* what checkState() leaves when its selection has an enclosing anchor or not
CheckedAgainstAnchor(s) ==
  /\ s.unlinkShown <=> findParentTag(s) # NoRange
  /\ Issued(s, "return true") <=> findParentTag(s) # NoRange
  /\ findParentTag(s) # NoRange => s.inputOpened

\* C31 as stated: after every checkState() the button's unlink and active
\* classes are present exactly if an anchor encloses the selection, whatever
\* the earlier calls left, the returned value is that presence, and with an
\* anchor the input is open and holds the anchor's href.
C31_Original ==
  Checked(linkTool)
    => /\ CheckedAgainstAnchor(linkTool)
       /\ findParentTag(linkTool) # NoRange
            => linkTool.value = linkTool.anchors[findParentTag(linkTool)].href

\* C31: after every checkState() the button's unlink and active classes are
\* present exactly if an anchor encloses the selection, whatever the earlier
\* calls left, the returned value is that presence, and with an anchor the
\* input is open and holds the anchor's href, or nothing if that href is the
\* text 'null'.
C31_StateFollowsAnchor ==
  Checked(linkTool)
    => /\ CheckedAgainstAnchor(linkTool)
       /\ findParentTag(linkTool) # NoRange
            => linkTool.value =
                 IF linkTool.anchors[findParentTag(linkTool)] = NullAnchor
                 THEN InputValue.empty
                 ELSE linkTool.anchors[findParentTag(linkTool)].href

\* checkState() found the anchor of an existing link and filled the input
C31_Witness ==
  /\ Issued(linkTool, "return true")
  /\ linkTool.unlinkShown
  /\ linkTool.inputOpened
  /\ linkTool.value = ExistingAnchor.href
  /\ linkTool.anchors[linkTool.range] = ExistingAnchor

\* C34: after every completed operation of the tool a fake background is
\* active only while the input is open, and setFakeBackground is called only
\* while none is active, so the saved selection never carries two of them.
C34_FakeBackgroundOnlyWhileOpen ==
  /\ [](linkTool.fake => linkTool.inputOpened)
  /\ [][Issued(linkTool', "setFakeBackground") => ~linkTool.fake]_vars

\* the input was closed by a handler that took the fake background away
C34_Witness ==
  /\ Issued(linkTool, "removeFakeBackground")
  /\ ~linkTool.inputOpened
  /\ ~linkTool.fake
  /\ linkTool.saved = NoRange

\* C38: Enter or the confirm button on a value validateURL accepts, the link
\* being made, leaves the tool closed (inputOpened false, the input's value
\* empty, no fake background, no saved selection); and a click on the button
\* while the tool is closed and no anchor encloses the selection opens the
\* input, empty, instead of closing it.
C38_ClosedAfterCommit ==
  /\ [][(linkTool.inputOpened /\ ~Rejected(linkTool.value)
           /\ trim(linkTool.value) # InputValue.empty
           /\ EnterOrConfirm)
          => /\ Issued(linkTool', "createLink")
             /\ ~linkTool'.inputOpened
             /\ linkTool'.value = InputValue.empty
             /\ ~linkTool'.fake
             /\ linkTool'.saved = NoRange]_vars
  /\ [][(~linkTool.inputOpened /\ linkTool.range # NoRange /\ ~InsideAnchor(linkTool)
           /\ ButtonClick)
          => /\ linkTool'.inputOpened
             /\ linkTool'.value = InputValue.empty
             /\ ~Issued(linkTool', "removeFakeBackground")]_vars

\* a link was committed and the tool is closed
C38_Witness ==
  /\ IssuedBefore(linkTool, "createLink", "inlineToolbar.close")
  /\ ~linkTool.threw
  /\ ~linkTool.inputOpened
  /\ linkTool.value = InputValue.empty

\* C35: save() leaves this.unavailableTunesData as the constructor composed
\* it from the tunesData it was given: no entry is added for a registered tune.
C35_SideTableUntouched ==
  unavailableTunesData = composeTunes(loadedTunesData)

\* C36: after construction, before any save(), unavailableTunesData has an
\* entry only for names no tune is registered under, user or internal.
C36_OnlyUnregisteredNames ==
  saved.status = "none"
    => \A n \in DOMAIN unavailableTunesData :
         n \notin tunesInstances \cup defaultTunesInstances

\* C37: a burst in which some batch had no mutation-free node is followed, once
\* it is quiet, by a run of the callback that is not discarded (the updated
\* hook is called and didMutated emitted), whatever batch came last.
C37_BurstNotifiesWhateverCameLast ==
  (timerArmed /\ ArmedByMutation /\ ~ SomeNodeMarked(timerArgs))
    ~> (CallbackRan /\ lastStep # "discarded")

(* ------------------------------------------------------------------ *)
(* Properties of the block tunes                                       *)
(* ------------------------------------------------------------------ *)

\* the handler that ran last called api.blocks.delete()
DeleteIssued(s) == \E i \in 1..Len(s.trace) : s.trace[i].call = "blocks.delete"

\* C32: a click on the delete button of a tune that is not waiting for
\* confirmation only arms it (needConfirmation set, one more subscription to
\* 'block-settings-closed', no Block removed, blocks.delete() not called);
\* blocks.delete() is called only in a step that starts with the shown tune
\* waiting for confirmation, and only such a step unsubscribes a tune; and the
\* closing of the panel resets every subscribed tune, so that the click after
\* it only arms again.
C32_DeleteOnlyOnConfirmation ==
  /\ [][(settings.panel # 0 /\ ~settings.needConfirmation[settings.panel] /\ DeleteClick)
          => /\ settings'.needConfirmation[settings.panel]
             /\ settings'.subscriptions[settings.panel]
                  = settings.subscriptions[settings.panel] + 1
             /\ settings'.blocks = settings.blocks
             /\ settings'.panel = settings.panel
             /\ ~DeleteIssued(settings')]_vars
  /\ [][(DeleteIssued(settings')
           \/ \E t \in Blocks : settings'.subscriptions[t] < settings.subscriptions[t])
          => settings.panel # 0 /\ settings.needConfirmation[settings.panel]]_vars
  /\ [][settings.panel # 0 /\ CloseSettings
          => \A t \in Blocks :
               settings.subscriptions[t] > 0 => ~settings'.needConfirmation[t]]_vars

\* the second click on a tune that was armed, reset by the closing panel and
\* armed again removed its Block
C32_Witness ==
  /\ DeleteIssued(settings)
  /\ Len(settings.blocks) = MaxBlocks - 1
  /\ \E t \in Blocks :
       /\ \A i \in 1..Len(settings.blocks) : settings.blocks[i] # t
       /\ settings.subscriptions[t] = 1
       /\ settings.needConfirmation[t] = FALSE

\* the moves and tooltip.hide calls the handler that ran last made
MovesIssued(s) ==
  SelectSeq(s.trace, LAMBDA c : c.call \in {"blocks.move", "tooltip.hide"})

\* the Blocks in their order, the one at index `from` put at index `to`
Reordered(blocks, from, to) ==
  [i \in 1..Len(blocks) |->
     IF i = to + 1 THEN blocks[from + 1]
     ELSE IF i = from + 1 THEN blocks[to + 1]
     ELSE blocks[i]]

\* C33: a click on move up with the current Block first, or with no current
\* Block, and a click on move down with the current Block last call neither
\* blocks.move nor tooltip.hide and leave the order of the Blocks as it is;
\* any other click calls blocks.move once, with the index before (move up) or
\* after (move down) the current one, an index some Block has, then
\* tooltip.hide; a move of an existing current Block exchanges it with its
\* neighbour.
C33_MovesStayInRange ==
  /\ [][MoveUpClick
          => IF settings.current <= 0
             THEN MovesIssued(settings') = <<>> /\ settings'.blocks = settings.blocks
             ELSE /\ MovesIssued(settings')
                       = <<Called("blocks.move", settings.current - 1),
                           Called("tooltip.hide", NoBlock)>>
                  /\ settings.current - 1 \in 0..(Len(settings.blocks) - 1)
                  /\ settings'.blocks
                       = Reordered(settings.blocks, settings.current, settings.current - 1)]_vars
  /\ [][MoveDownClick
          => IF settings.current = Len(settings.blocks) - 1
             THEN MovesIssued(settings') = <<>> /\ settings'.blocks = settings.blocks
             ELSE /\ MovesIssued(settings')
                       = <<Called("blocks.move", settings.current + 1),
                           Called("tooltip.hide", NoBlock)>>
                  /\ settings.current + 1 \in 0..(Len(settings.blocks) - 1)
                  /\ settings.current # NoBlock
                       => settings'.blocks
                            = Reordered(settings.blocks, settings.current, settings.current + 1)]_vars

\* the last Block was moved up
C33_Witness ==
  /\ Issued(settings, Called("blocks.move", MaxBlocks - 2))
  /\ settings.current = MaxBlocks - 2
  /\ getBlockByIndex(settings, MaxBlocks - 2) = MaxBlocks

====
